---- MODULE Spec2Model ----
(***************************************************************************)
(* PgArachne: JSON-RPC gateway that dispatches HTTP calls to PostgreSQL    *)
(* functions under a per-request role.                                     *)
(*                                                                         *)
(*   internal/database  GetConnection: the registry of connection pools    *)
(*   internal/server    Run (routes), handleLogin, authMiddleware,         *)
(*                      handleFunctionCall                                 *)
(*   internal/config    Load, and main's use of it                         *)
(*   internal/auth      HashToken                                          *)
(*                                                                         *)
(* The specifications share the variables:                                 *)
(*   PoolSpec  concurrent callers of GetConnection, one step per           *)
(*             statement that touches dbMutex, dbConnections or a          *)
(*             database; PoolFairSpec adds the fairness of the scheduler   *)
(*             and of sync.RWMutex;                                        *)
(*   Spec      HTTP requests of every shape running the handler chains,    *)
(*             one step per blocking database call;                        *)
(*   ConcSpec  HTTP requests served at the same time: dispatches, calls    *)
(*             the middleware rejects, and failing logins;                 *)
(*   TwinSpec  a call and a variant of its envelope served at the same     *)
(*             time;                                                       *)
(*   ShutSpec  Spec together with Run's shutdown and the end of the        *)
(*             process;                                                    *)
(*   ExpirySpec  the clock, the minting of a session token and the checks  *)
(*             of its expiry;                                              *)
(*   ConfigSpec  main from its start: Load on an environment, then the     *)
(*             server or the exit;                                         *)
(*   HashSpec  calls of HashToken on a set of tokens.                      *)
(***************************************************************************)
EXTENDS Integers, Sequences, FiniteSets, TLC

\* ------------------------------------------------------------------ bounds
NumCallers == 2
MaxPools == 2
NumRequests == 1
NumConcurrent == 2
MaxConns == 2

\* ---------------------------------------------------------------- universe
Databases == {"shop", "crm"}
Callers == 1..NumCallers
Requests == 1..NumRequests
ConcRequests == 1..NumConcurrent
PoolIds == 1..MaxPools
ConnIds == 1..MaxConns
NoPool == 0
NoDb == "-"

VARIABLES
  dbConnections,  \* database.go:14  map[string]*sql.DB, NoPool = no entry
  dbMutex,        \* database.go:15  sync.RWMutex: [readers, writer, pending, blocked]
  pools,          \* the *sql.DB objects sql.Open has returned: pool id -> database name
  faulted,        \* history: database names for which an Open or a Ping has failed
  returned,       \* history: <<database name, pool>> pairs GetConnection has returned
  gc,             \* per caller: the activation record of GetConnection
  req,            \* per HTTP request: its inputs, the handler's locals, its response
  conns,          \* per pool and connection: who holds it, and the role it runs as
  srv,            \* server.go:80-116  the http.Server and Run's position around Shutdown
  session,        \* the wall clock, and one session token from its minting to its checks
  boot,           \* main.go:49-54  the process from its start to its serving: environment, Config
  hashed          \* the calls of auth.HashToken made so far: token and returned hash

poolVars == <<dbConnections, dbMutex, pools, faulted, returned>>
procVars == <<boot, hashed>>
vars == <<dbConnections, dbMutex, pools, faulted, returned, gc, req, conns, srv, session, boot, hashed>>

\* =========================================================================
\* internal/database/database.go
\* =========================================================================

\* The next *sql.DB object sql.Open allocates (0 when the model's bound is used up).
FreshPool ==
  IF \E p \in PoolIds : pools[p] = NoDb
    THEN CHOOSE p \in PoolIds : pools[p] = NoDb /\ \A q \in PoolIds : pools[q] = NoDb => p <= q
    ELSE NoPool

GcIdle ==
  [pc |-> "idle", dbName |-> NoDb, db |-> NoPool, newDB |-> NoPool, passed |-> {}, failed |-> {}]

\* The record of a caller whose call has returned: its locals are gone; what
\* is kept, as history until its next call, is which pools the call probed
\* with success (passed) and without (failed).
GcReturned(c, passed, failed) == [GcIdle EXCEPT !.passed = passed, !.failed = failed]

\* sync.RWMutex. readers hold the lock shared and writer holds it
\* exclusively; pending is the caller whose Lock has announced itself and
\* waits for the readers to leave; blocked are the callers whose RLock came
\* after that announcement (or while the writer holds the lock) and waits
\* for the writer's Unlock.
\* A shared lock that is granted while a writer holds the lock.
RLockUnchecked(c) == dbMutex' = [dbMutex EXCEPT !.readers = @ \cup {c}]

\* dbMutex.RLock(): granted at once unless a writer holds the lock or has
\* announced itself; then the call blocks.
RLock(c) ==
  dbMutex' = IF dbMutex.writer = 0 /\ dbMutex.pending = 0
               THEN [dbMutex EXCEPT !.readers = @ \cup {c}]
               ELSE [dbMutex EXCEPT !.blocked = @ \cup {c}]

\* dbMutex.RUnlock(): the last reader to leave hands the lock to the writer
\* that waits for it.
RUnlock(c) ==
  dbMutex' = IF dbMutex.readers = {c} /\ dbMutex.pending # 0
               THEN [dbMutex EXCEPT !.readers = {}, !.writer = dbMutex.pending, !.pending = 0]
               ELSE [dbMutex EXCEPT !.readers = @ \ {c}]

\* dbMutex.Lock(): one writer at a time gets to announce itself (the others
\* wait in Lock); it holds the lock at once when there is no reader, and
\* waits for the readers to leave otherwise.
Lock(c) ==
  /\ dbMutex.writer = 0
  /\ dbMutex.pending = 0
  /\ dbMutex' = IF dbMutex.readers = {} THEN [dbMutex EXCEPT !.writer = c]
                ELSE [dbMutex EXCEPT !.pending = c]

\* A return that leaves the exclusive lock held.
UnlockForgotten(c) == dbMutex' = dbMutex

\* defer dbMutex.Unlock(): the blocked readers get the lock
Unlock(c) == dbMutex' = [dbMutex EXCEPT !.writer = 0, !.readers = dbMutex.blocked, !.blocked = {}]

\* The callers a release of the lock has let in go on: a blocked reader that
\* now holds the lock shared is at its read, the waiting writer that now
\* holds it is at its re-check.
Woken(g) ==
  [x \in Callers |->
     IF g[x].pc = "rwait" /\ x \in dbMutex'.readers THEN [g[x] EXCEPT !.pc = "read"]
     ELSE IF g[x].pc = "lwait" /\ dbMutex'.writer = x THEN [g[x] EXCEPT !.pc = "recheck"]
     ELSE g[x]]

\* A caller enters GetConnection(cfg, dbName).
GcCall(c) ==
  /\ gc[c].pc = "idle"
  /\ \E d \in Databases : gc' = [gc EXCEPT ![c] = [GcIdle EXCEPT !.pc = "rlock", !.dbName = d]]
  /\ UNCHANGED poolVars

\* line 21
GcRLock(c) ==
  /\ gc[c].pc = "rlock"
  /\ RLock(c)
  /\ gc' = [gc EXCEPT ![c].pc = IF c \in dbMutex'.readers THEN "read" ELSE "rwait"]
  /\ UNCHANGED <<dbConnections, pools, faulted, returned>>

\* lines 22-23: db, ok := dbConnections[dbName]; RUnlock
GcRead(c) ==
  /\ gc[c].pc = "read"
  /\ RUnlock(c)
  /\ gc' = Woken([gc EXCEPT ![c].db = dbConnections[gc[c].dbName],
                            ![c].pc = IF dbConnections[gc[c].dbName] # NoPool THEN "ping" ELSE "lock"])
  /\ UNCHANGED <<dbConnections, pools, faulted, returned>>

\* lines 24-28: the optimistic probe, outside any lock
GcPing(c) ==
  /\ gc[c].pc = "ping"
  /\ \E healthy \in BOOLEAN :
       IF healthy
         THEN /\ gc' = [gc EXCEPT ![c] = GcReturned(c, gc[c].passed \cup {gc[c].db}, gc[c].failed)]
              /\ returned' = returned \cup {<<gc[c].dbName, gc[c].db>>}
              /\ UNCHANGED faulted
         ELSE /\ gc' = [gc EXCEPT ![c].pc = "lock", ![c].failed = @ \cup {gc[c].db}]
              /\ faulted' = faulted \cup {gc[c].dbName}
              /\ UNCHANGED returned
  /\ UNCHANGED <<dbConnections, dbMutex, pools>>

\* line 30
GcLock(c) ==
  /\ gc[c].pc = "lock"
  /\ Lock(c)
  /\ gc' = [gc EXCEPT ![c].pc = IF dbMutex'.writer = c THEN "recheck" ELSE "lwait"]
  /\ UNCHANGED <<dbConnections, pools, faulted, returned>>

\* No second read: the result of the read before the lock is used.
StaleLookup(c) == gc[c].db

\* line 34: db, ok = dbConnections[dbName], read again under the exclusive lock
RecheckLookup(c) == dbConnections[gc[c].dbName]

\* lines 34-39: the double check under the exclusive lock
GcRecheck(c) ==
  /\ gc[c].pc = "recheck"
  /\ LET db == RecheckLookup(c) IN
       IF db = NoPool
         THEN /\ gc' = [gc EXCEPT ![c].db = db, ![c].pc = "open"]
              /\ UNCHANGED <<dbMutex, faulted, returned>>
         ELSE \E healthy \in BOOLEAN :
                IF healthy
                  THEN /\ Unlock(c)
                       /\ gc' = Woken([gc EXCEPT ![c] = GcReturned(c, gc[c].passed \cup {db}, gc[c].failed)])
                       /\ returned' = returned \cup {<<gc[c].dbName, db>>}
                       /\ UNCHANGED faulted
                  ELSE /\ gc' = [gc EXCEPT ![c].db = db, ![c].pc = "open", ![c].failed = @ \cup {db}]
                       /\ faulted' = faulted \cup {gc[c].dbName}
                       /\ UNCHANGED <<dbMutex, returned>>
  /\ UNCHANGED <<dbConnections, pools>>

\* lines 41-47: sql.Open
GcOpen(c) ==
  /\ gc[c].pc = "open"
  /\ \E opened \in BOOLEAN :
       IF opened
         THEN /\ FreshPool # NoPool
              /\ pools' = [pools EXCEPT ![FreshPool] = gc[c].dbName]
              /\ gc' = [gc EXCEPT ![c].newDB = FreshPool, ![c].pc = "newping"]
              /\ UNCHANGED <<dbMutex, faulted>>
         ELSE /\ Unlock(c)
              /\ gc' = Woken([gc EXCEPT ![c] = GcReturned(c, gc[c].passed, gc[c].failed)])
              /\ faulted' = faulted \cup {gc[c].dbName}
              /\ UNCHANGED pools
  /\ UNCHANGED <<dbConnections, returned>>

\* A registration that closes the pool it replaces.
ClosedDb == "closed"
RegisterClosingOld(c) ==
  [p \in PoolIds |-> IF p = dbConnections[gc[c].dbName] THEN ClosedDb ELSE pools[p]]

\* line 53: dbConnections[dbName] = newDB assigns the map entry only; the
\* *sql.DB the entry held before is neither closed nor changed
RegisterEffect(c) == pools

\* A failed probe of the new pool after which the new pool is registered all
\* the same.
RegisterOnFailedProbe(c) == [dbConnections EXCEPT ![gc[c].dbName] = gc[c].newDB]

\* A failed probe of the new pool that drops the entry of the name.
EvictOnFailedProbe(c) == [dbConnections EXCEPT ![gc[c].dbName] = NoPool]

\* lines 49-51: a failed probe of the new pool returns the error; the map is
\* not touched
AfterFailedProbe(c) == dbConnections

\* lines 49-55: probe the new pool, register it, return it
GcRegister(c) ==
  /\ gc[c].pc = "newping"
  /\ Unlock(c)
  /\ \E healthy \in BOOLEAN :
       IF healthy
         THEN /\ dbConnections' = [dbConnections EXCEPT ![gc[c].dbName] = gc[c].newDB]
              /\ returned' = returned \cup {<<gc[c].dbName, gc[c].newDB>>}
              /\ gc' = Woken([gc EXCEPT ![c] = GcReturned(c, gc[c].passed \cup {gc[c].newDB}, gc[c].failed)])
              /\ UNCHANGED faulted
         ELSE /\ faulted' = faulted \cup {gc[c].dbName}
              /\ dbConnections' = AfterFailedProbe(c)
              /\ gc' = Woken([gc EXCEPT ![c] = GcReturned(c, gc[c].passed, gc[c].failed \cup {gc[c].newDB})])
              /\ UNCHANGED returned
  /\ pools' = RegisterEffect(c)

GetConnectionStep(c) ==
  \/ GcCall(c)
  \/ GcRLock(c)
  \/ GcRead(c)
  \/ GcPing(c)
  \/ GcLock(c)
  \/ GcRecheck(c)
  \/ GcOpen(c)
  \/ GcRegister(c)


\* GetConnection run as one step of a request handler (Spec): the outcomes of
\* lines 20-56 when no other caller interleaves. res is the *sql.DB returned,
\* NoPool when an error is returned.
GetConnection(d, res) ==
  LET cur == dbConnections[d] IN
    \/ /\ cur # NoPool                 \* lines 24-27, 35-38: registered, probe succeeds
       /\ res = cur
       /\ UNCHANGED <<dbConnections, pools>>
    \/ /\ FreshPool # NoPool           \* lines 41-55: not registered, or its probe failed
       /\ pools' = [pools EXCEPT ![FreshPool] = d]
       /\ \/ /\ res = FreshPool        \*   lines 53-55: new pool probed and registered
             /\ dbConnections' = [dbConnections EXCEPT ![d] = FreshPool]
          \/ /\ res = NoPool           \*   lines 49-51: the new pool's probe fails
             /\ UNCHANGED dbConnections
    \/ /\ res = NoPool                 \* lines 44-47: sql.Open fails
       /\ UNCHANGED <<dbConnections, pools>>

\* =========================================================================
\* The database server, as the gateway sees it
\* =========================================================================
DBHost == "dbhost"                       \* cfg.DBHost
DBUser == "pgarachne"                    \* cfg.DBUser, the login the pools connect as
Roles == {"demo", "admin"}               \* login roles of the database server
PgPassword == [u \in Roles |-> IF u = "demo" THEN "pw-demo" ELSE "pw-admin"]
Missing == "<missing>"                   \* a claim absent from a token
Null == "<null>"                         \* SQL NULL

\* pgarachne.verify_api_token (sql/schema.sql:113-134): the role of a stored,
\* unexpired API token, NULL for any other text. "key-blank" is a token row
\* whose role column is the empty string.
ApiTokenRole(d, raw) ==
  IF raw = "key-demo" /\ d = "shop" THEN "demo"
  ELSE IF raw = "key-blank" THEN ""
  ELSE Null

\* A connection string is a sequence of key=value words (lib/pq's syntax:
\* words separated by spaces). A text value that contains spaces contributes
\* its first word to the key it was formatted under and every further word as
\* a key=value word of its own.
Text(w) == [head |-> w, extra |-> <<>>]
TextWith(w, k, v) == [head |-> w, extra |-> <<[key |-> k, val |-> v]>>]

\* lib/pq's parseOpts: the value of key k is that of the last word naming k.
ParseOpts(dsn, k) ==
  LET at == {i \in 1..Len(dsn) : dsn[i].key = k} IN
    IF at = {} THEN "" ELSE dsn[CHOOSE i \in at : \A j \in at : j <= i].val

\* The server authenticates user with password for dbname (password
\* authentication over the wire protocol).
PgAuthenticates(dsn) ==
  /\ ParseOpts(dsn, "host") = DBHost
  /\ ParseOpts(dsn, "dbname") \in Databases
  /\ ParseOpts(dsn, "user") \in Roles
  /\ ParseOpts(dsn, "password") = PgPassword[ParseOpts(dsn, "user")]

\* =========================================================================
\* internal/server: requests, tokens, envelopes
\* =========================================================================

\* Path segments, as sequences of characters.
FnLogin == <<"l", "o", "g", "i", "n">>
FnCapabilities == <<"c", "a", "p", "a", "b", "i", "l", "i", "t", "i", "e", "s">>
FnPlain == <<"f", "_", "1">>
FnQualified == <<"a", "p", "i", ".", "f">>
FnFreeForm == <<"f", "(", ")", "-", "-">>
FunctionNames == {FnLogin, FnCapabilities, FnPlain, FnQualified, FnFreeForm}

\* Bearer values. A JWT is described by what jwt.Parse finds in it: sig is
\* "good" (HMAC, signed with cfg.JWTSecret), "bad" (HMAC, other key) or "alg"
\* (not an HMAC method); raw is the text of the token as verify_api_token sees it.
Jwt(sig, expired, role, db) ==
  [kind |-> "jwt", sig |-> sig, expired |-> expired, role |-> role, db |-> db, raw |-> "jwt"]
Opaque(raw) ==
  [kind |-> "opaque", sig |-> "-", expired |-> FALSE, role |-> Missing, db |-> Missing, raw |-> raw]
NoToken == Opaque("")

Tokens ==
  { Jwt("good", FALSE, "demo", "shop"), Jwt("good", FALSE, "demo", "crm"),
    Jwt("good", TRUE, "demo", "shop"), Jwt("bad", FALSE, "demo", "shop"),
    Jwt("alg", FALSE, "demo", "shop"), Jwt("good", FALSE, Missing, "shop"),
    Jwt("good", FALSE, "", "shop"), Jwt("good", FALSE, "demo", Missing),
    Opaque("key-demo"), Opaque("key-blank"), Opaque("garbage") }

\* Authorization headers: absent, one word (no space), or "<scheme> <token>".
Headers ==
  { [form |-> "absent", scheme |-> "", token |-> NoToken],
    [form |-> "one", scheme |-> "", token |-> NoToken] }
  \cup [form : {"two"}, scheme : {"Bearer"}, token : Tokens]
  \cup [form : {"two"}, scheme : {"Basic"},
        token : {Jwt("good", FALSE, "demo", "shop"), Opaque("key-demo")}]

\* strings.ToLower on the schemes of the model
ToLower(s) == IF s = "Bearer" THEN "bearer" ELSE IF s = "Basic" THEN "basic" ELSE s

\* Request bodies: not JSON; a JSON-RPC envelope with or without an id; a
\* {login, password} object.
NoId == "<nil>"
BigId == "9007199254740993"
BigIdRounded == "9007199254740992"
\* The method and jsonrpc members of an envelope are a JSON string, absent,
\* or a JSON value of another type (a number, say).
JsonString(s) == [json |-> "string", text |-> s]
JsonAbsent == [json |-> "absent", text |-> <<>>]
NotAString == [json |-> "number", text |-> <<>>]
TagV2 == JsonString(<<"2", ".", "0">>)
TagV1 == JsonString(<<"1", ".", "0">>)
RpcBodyWith(id, method, tag) ==
  [kind |-> "rpc", id |-> id, login |-> "", password |-> Text(""), method |-> method, jsonrpc |-> tag]
RpcBody(id) == RpcBodyWith(id, JsonString(FnPlain), TagV2)
LoginBody(l, p) ==
  [kind |-> "login", id |-> NoId, login |-> l, password |-> p, method |-> JsonAbsent, jsonrpc |-> JsonAbsent]
BadBody ==
  [kind |-> "malformed", id |-> NoId, login |-> "", password |-> Text(""),
   method |-> JsonAbsent, jsonrpc |-> JsonAbsent]
LoginBodies ==
  { LoginBody("demo", Text("pw-demo")), LoginBody("demo", Text("nope")),
    LoginBody("ghost", Text("pw-demo")),
    LoginBody("admin", TextWith("pw-demo", "user", "demo")) }

\* The requests of the model: calls of the protected route with envelopes (and
\* one body of the other route's shape), and calls of the login path with
\* login bodies (and bodies of the other shapes), with or without a bearer.
Calls ==
  [database : Databases, function : FunctionNames \ {FnLogin}, hdr : Headers,
   body : {BadBody, RpcBody(NoId), RpcBody("7"), RpcBody(BigId), LoginBody("demo", Text("pw-demo"))}]
Logins ==
  [database : Databases, function : {FnLogin},
   hdr : { [form |-> "absent", scheme |-> "", token |-> NoToken],
           [form |-> "two", scheme |-> "Bearer", token |-> Jwt("good", FALSE, "demo", "shop")],
           [form |-> "two", scheme |-> "Bearer", token |-> Opaque("garbage")] },
   body : LoginBodies \cup {BadBody, RpcBody("7")}]

\* Responses. An envelope is a JSONRPCResponse (server.go:357-367), a plain
\* one a gin.H of the login route.
NoResp ==
  [status |-> 0, shape |-> "-", jsonrpc |-> "", code |-> 0, message |-> "",
   id |-> NoId, result |-> FALSE, token |-> NoToken]
ErrorEnvelope(status, code, message, id) ==
  [status |-> status, shape |-> "envelope", jsonrpc |-> "", code |-> code,
   message |-> message, id |-> id, result |-> FALSE, token |-> NoToken]
ResultEnvelope(id) ==
  [status |-> 200, shape |-> "envelope", jsonrpc |-> "2.0", code |-> 0,
   message |-> "", id |-> id, result |-> TRUE, token |-> NoToken]
Plain(status, message, token) ==
  [status |-> status, shape |-> "plain", jsonrpc |-> "", code |-> 0,
   message |-> message, id |-> NoId, result |-> FALSE, token |-> token]

\* A transaction handle (*sql.Tx): state is none, open, committing (Commit has
\* marked it done and the driver's COMMIT is in flight), committed or
\* rolledback; pool and conn name the connection it holds.
TxNone == [state |-> "none", pool |-> NoPool, conn |-> 0]

\* A pooled connection: the request whose transaction holds it (0: idle in the
\* pool), the role set for the current transaction, the role set for the session.
FreeConn == [holder |-> 0, localRole |-> "", sessionRole |-> ""]

\* The role a statement on the connection runs as.
CurrentRole(cn) ==
  IF cn.localRole # "" THEN cn.localRole
  ELSE IF cn.sessionRole # "" THEN cn.sessionRole
  ELSE DBUser

\* What a request has done on the database so far (history), and, as
\* txAtCancel, the state its transaction was in when its context was cancelled.
Event(op, arg, res, as) == [op |-> op, arg |-> arg, res |-> res, as |-> as]

\* The http.Server of Run: phase is serving (ListenAndServe accepts), draining
\* (Shutdown has closed the listeners and waits), returned (Run has returned
\* err) or exited (the process has ended); elapsed counts the seconds of the
\* context Shutdown was given.
SrvServing == [phase |-> "serving", elapsed |-> 0, err |-> "nil"]

\* The wall clock (now, in ticks), cfg.JWTExpiryHours, and the session token
\* under observation: when it was minted and with which exp claim, and the
\* last check of it (NoTime: none).
NoTime == -1
TicksPerSecond == 2                      \* the clock's resolution in the model
SecondsPerHour == 3600                   \* time.Hour
HourTicks == SecondsPerHour * TicksPerSecond
DefaultExpiryHours == 8                  \* auth.go:128
ExpiryHours == {0, 1, DefaultExpiryHours}  \* values of JWT_EXPIRY_HOURS
StartOfClock == TicksPerSecond           \* the clock reads one second at the start
MaxOffset == 5                           \* instants observed: up to MaxOffset ticks past a whole hour
MaxHours == DefaultExpiryHours + 1       \* the clock stops after MaxHours hours
SessionIdle(hours, now) ==
  [phase |-> "idle", hours |-> hours, now |-> now, issued |-> NoTime, exp |-> NoTime,
   presentedAt |-> NoTime, accepted |-> FALSE]

ReqIdle ==
  [pc |-> "idle", database |-> NoDb, function |-> <<>>,
   hdr |-> [form |-> "absent", scheme |-> "", token |-> NoToken], body |-> BadBody,
   ctxDone |-> FALSE, txAtCancel |-> "-", aborted |-> FALSE, dbRole |-> "", db |-> NoPool, tx |-> TxNone,
   trace |-> <<>>, resp |-> NoResp, writes |-> 0, dsn |-> <<>>, tempDB |-> "none"]
\* =========================================================================
\* internal/config Load (auth.go:47-178 in this tree) and main (main.go:16-101)
\* =========================================================================

\* strconv.Atoi on a text given as its characters: an optional sign, then
\* one or more decimal digits. (Values beyond the int range, which Atoi also
\* refuses, are not among the texts drawn here.)
Atoi(s) ==
  LET DigitChars == <<"0", "1", "2", "3", "4", "5", "6", "7", "8", "9">>
      IsDigit(c) == \E i \in 1..Len(DigitChars) : DigitChars[i] = c
      DigitValue(c) == (CHOOSE i \in 1..Len(DigitChars) : DigitChars[i] = c) - 1
      RECURSIVE DigitsValue(_, _)
      DigitsValue(t, k) == IF k = 0 THEN 0 ELSE 10 * DigitsValue(t, k - 1) + DigitValue(t[k])
      signed == Len(s) > 0 /\ s[1] \in {"+", "-"}
      digits == IF signed THEN Tail(s) ELSE s IN
    IF digits = <<>> \/ \E i \in 1..Len(digits) : ~IsDigit(digits[i])
      THEN [ok |-> FALSE, val |-> 0]
      ELSE [ok |-> TRUE,
            val |-> IF signed /\ s[1] = "-" THEN 0 - DigitsValue(digits, Len(digits))
                    ELSE DigitsValue(digits, Len(digits))]

\* The environment after godotenv.Load: the -config flag (no path, a file
\* that loads, a file that does not) and the variables Load reads. DB_PORT
\* and JWT_EXPIRY_HOURS are texts; STATIC_FILES_PATH is unset, a directory, a
\* path that does not exist, or a file.
Environments ==
  [configPath : {"", "loads", "fails"},
   DB_HOST : {"", "db.local"},
   DB_USER : {"", "gateway"},
   DB_PORT : {<<>>, <<"0">>, <<"5", "4", "3", "2">>, <<"-", "1">>, <<"x">>},
   JWT_SECRET : {"", "s3cret"},
   JWT_EXPIRY_HOURS : {<<>>, <<"1">>, <<"8", "h">>},
   STATIC_FILES_PATH : {"", "dir", "absent", "file"}]

NoConfig == [DBHost |-> "", DBPort |-> 0, DBUser |-> "", JWTSecret |-> "", JWTExpiryHours |-> 0,
             StaticFilesPath |-> ""]

\* A check that lets an empty secret through.
SecretOptional(cfg) == FALSE

\* line 169: cfg.DBHost == "" || cfg.DBUser == "" || cfg.DBPort == 0
MissingDatabaseTarget(cfg) == cfg.DBHost = "" \/ cfg.DBUser = "" \/ cfg.DBPort = 0
\* line 173: cfg.JWTSecret == ""
MissingSecret(cfg) == cfg.JWTSecret = ""

\* lines 47-178: Load, in the order of its returns
Load(env) ==
  LET LoadError(message) == [err |-> message, cfg |-> NoConfig] IN
  IF env.configPath = "fails" THEN LoadError("failed to load config file")
  ELSE IF env.DB_PORT # <<>> /\ ~Atoi(env.DB_PORT).ok THEN LoadError("invalid DB_PORT value")
  ELSE IF env.JWT_EXPIRY_HOURS # <<>> /\ ~Atoi(env.JWT_EXPIRY_HOURS).ok
    THEN LoadError("invalid JWT_EXPIRY_HOURS value")
  ELSE IF env.STATIC_FILES_PATH = "absent"
    THEN LoadError("FATAL: The resolved static files path does not exist")
  ELSE IF env.STATIC_FILES_PATH = "file"
    THEN LoadError("FATAL: The resolved static files path is not a directory")
  ELSE LET cfg == [DBHost |-> env.DB_HOST,
                   DBPort |-> IF env.DB_PORT = <<>> THEN 0 ELSE Atoi(env.DB_PORT).val,
                   DBUser |-> env.DB_USER,
                   JWTSecret |-> env.JWT_SECRET,
                   JWTExpiryHours |-> IF env.JWT_EXPIRY_HOURS = <<>> THEN DefaultExpiryHours
                                      ELSE Atoi(env.JWT_EXPIRY_HOURS).val,
                   StaticFilesPath |-> env.STATIC_FILES_PATH] IN
         IF MissingDatabaseTarget(cfg)
           THEN LoadError("missing required database environment variables: DB_HOST, DB_USER, DB_PORT")
         ELSE IF MissingSecret(cfg)
           THEN LoadError("jwt_secret not set in config (environment variable JWT_SECRET)")
         ELSE [err |-> "nil", cfg |-> cfg]

\* The process: where main is, its environment, what Load returned, and the
\* number of requests the server has taken.
MaxServed == 2
BootAt(env) == [pc |-> "start", env |-> env, err |-> "nil", cfg |-> NoConfig, served |-> 0]
ServingEnv ==
  [configPath |-> "", DB_HOST |-> "db.local", DB_USER |-> "gateway", DB_PORT |-> <<"5", "4", "3", "2">>,
   JWT_SECRET |-> "s3cret", JWT_EXPIRY_HOURS |-> <<>>, STATIC_FILES_PATH |-> ""]
BootServing ==
  [pc |-> "serving", env |-> ServingEnv, err |-> "nil", cfg |-> Load(ServingEnv).cfg, served |-> 0]

\* main.go:49-54: cfg, err := config.Load(*configPath); on an error os.Exit(1)
MainLoad ==
  /\ boot.pc = "start"
  /\ LET res == Load(boot.env) IN
       boot' = [boot EXCEPT !.pc = IF res.err = "nil" THEN "configured" ELSE "exited",
                            !.err = res.err, !.cfg = res.cfg]
  /\ UNCHANGED <<poolVars, gc, req, conns, srv, session, hashed>>

\* main.go:56-93: the logger is set up (os.Exit(1) when the log file cannot
\* be opened), then server.New(cfg) and srv.Run()
MainRun ==
  /\ boot.pc = "configured"
  /\ \E logOpens \in BOOLEAN :
       boot' = [boot EXCEPT !.pc = IF logOpens THEN "serving" ELSE "exited"]
  /\ UNCHANGED <<poolVars, gc, req, conns, srv, session, hashed>>

\* server.go:80-96: the listener takes a request
MainServe ==
  /\ boot.pc = "serving"
  /\ boot.served < MaxServed
  /\ boot' = [boot EXCEPT !.served = @ + 1]
  /\ UNCHANGED <<poolVars, gc, req, conns, srv, session, hashed>>

ConfigInit ==
  /\ dbConnections = [d \in Databases |-> NoPool]
  /\ dbMutex = [readers |-> {}, writer |-> 0, pending |-> 0, blocked |-> {}]
  /\ pools = [p \in PoolIds |-> NoDb]
  /\ faulted = {}
  /\ returned = {}
  /\ gc = [c \in Callers |-> GcIdle]
  /\ req = [r \in Requests |-> ReqIdle]
  /\ conns = [p \in PoolIds |-> [c \in ConnIds |-> FreeConn]]
  /\ srv = SrvServing
  /\ session = SessionIdle(DefaultExpiryHours, StartOfClock)
  /\ hashed = <<>>
  /\ \E env \in Environments : boot = BootAt(env)

ConfigNext == MainLoad \/ MainRun \/ MainServe

ConfigSpec == ConfigInit /\ [][ConfigNext]_vars

\* =========================================================================
\* internal/auth HashToken (auth.go:8-12): hex.EncodeToString(sha256.Sum256(token))
\* SHA-256 as in FIPS 180-4, which crypto/sha256 implements.
\* =========================================================================
\* FIPS 180-4, 4.2.2 and 5.3.3: the round constants and the initial hash
\* value, each 32-bit word as the pair <<high half, low half>> of its 16-bit
\* halves.
K256 ==
  <<<<17034, 12184>>, <<28983, 17553>>, <<46528, 64463>>, <<59829, 56229>>, <<14678, 49755>>, <<23025,
  4593>>, <<37439, 33444>>, <<43804, 24277>>, <<55303, 43672>>, <<4739, 23297>>, <<9265, 34238>>,
  <<21772, 32195>>, <<29374, 23924>>, <<32990, 45566>>, <<39900, 1703>>, <<49563, 61812>>, <<58523,
  27073>>, <<61374, 18310>>, <<4033, 40390>>, <<9228, 41420>>, <<11753, 11375>>, <<19060, 33962>>,
  <<23728, 43484>>, <<30457, 35034>>, <<38974, 20818>>, <<43057, 50797>>, <<45059, 10184>>, <<48985,
  32711>>, <<50912, 3059>>, <<54695, 37191>>, <<1738, 25425>>, <<5161, 10599>>, <<10167, 2693>>,
  <<11803, 8504>>, <<19756, 28156>>, <<21304, 3347>>, <<25866, 29524>>, <<30314, 2747>>, <<33218,
  51502>>, <<37490, 11397>>, <<41663, 59553>>, <<43034, 26187>>, <<49739, 35696>>, <<51052, 20899>>,
  <<53650, 59417>>, <<54937, 1572>>, <<62478, 13701>>, <<4202, 41072>>, <<6564, 49430>>, <<7735,
  27656>>, <<10056, 30540>>, <<13488, 48309>>, <<14620, 3251>>, <<20184, 43594>>, <<23452, 51791>>,
  <<26670, 28659>>, <<29839, 33518>>, <<30885, 25455>>, <<33992, 30740>>, <<36039, 520>>, <<37054,
  65530>>, <<42064, 27883>>, <<48889, 41975>>, <<50801, 30962>>>>
InitH ==
  <<<<27145, 58983>>, <<47975, 44677>>, <<15470, 62322>>, <<42319, 62778>>, <<20750, 21119>>, <<39685,
  26764>>, <<8067, 55723>>, <<23520, 52505>>>>

\* sha256.Sum256: the 32 bytes of the digest of the bytes m. A 32-bit word is
\* the pair <<high half, low half>> of its 16-bit halves.
Sum256(m) ==
  LET HalfBits == 16
      HalfMod == 2^HalfBits
      RECURSIVE XorBits(_, _, _)
      XorBits(x, y, bits) ==
        IF bits = 0 THEN 0 ELSE ((x + y) % 2) + 2 * XorBits(x \div 2, y \div 2, bits - 1)
      RECURSIVE AndBits(_, _, _)
      AndBits(x, y, bits) ==
        IF bits = 0 THEN 0 ELSE ((x % 2) * (y % 2)) + 2 * AndBits(x \div 2, y \div 2, bits - 1)

      Xor(a, b) == <<XorBits(a[1], b[1], HalfBits), XorBits(a[2], b[2], HalfBits)>>
      Xor3(a, b, c) == Xor(Xor(a, b), c)
      And(a, b) == <<AndBits(a[1], b[1], HalfBits), AndBits(a[2], b[2], HalfBits)>>
      Not(a) == <<HalfMod - 1 - a[1], HalfMod - 1 - a[2]>>
      \* shifts and rotations to the right by k bits
      ShR(a, k) ==
        IF k >= HalfBits THEN <<0, a[1] \div 2^(k - HalfBits)>>
        ELSE <<a[1] \div 2^k, (a[2] \div 2^k) + (a[1] % 2^k) * 2^(HalfBits - k)>>
      RotR(a, k) ==
        IF k >= HalfBits
          THEN LET j == k - HalfBits IN
                 <<(a[2] \div 2^j) + (a[1] % 2^j) * 2^(HalfBits - j),
                   (a[1] \div 2^j) + (a[2] % 2^j) * 2^(HalfBits - j)>>
          ELSE <<(a[1] \div 2^k) + (a[2] % 2^k) * 2^(HalfBits - k),
                 (a[2] \div 2^k) + (a[1] % 2^k) * 2^(HalfBits - k)>>
      \* the sum of the words of a tuple, modulo 2^32
      RECURSIVE SumHalves(_, _)
      SumHalves(ws, k) ==
        IF k = 0 THEN <<0, 0>>
        ELSE LET s == SumHalves(ws, k - 1) IN <<ws[k][1] + s[1], ws[k][2] + s[2]>>
      Add(ws) ==
        LET s == SumHalves(ws, Len(ws)) IN
          <<(s[1] + (s[2] \div HalfMod)) % HalfMod, s[2] % HalfMod>>
      \* message, 0x80, zeros up to 56 mod 64, the bit length as 8 bytes
      RECURSIVE Zeros(_)
      Zeros(k) == IF k = 0 THEN <<>> ELSE <<0>> \o Zeros(k - 1)
      Pad(msg) ==
        LET bits == 8 * Len(msg)
            z == (119 - Len(msg)) % 64 IN
          msg \o <<128>> \o Zeros(z) \o <<0, 0, 0, 0, 0, 0>> \o <<bits \div 256, bits % 256>>

      \* the message schedule: the 16 words of the block extended to 64
      RECURSIVE Schedule(_)
      Schedule(w) ==
        IF Len(w) = 64 THEN w
        ELSE LET t == Len(w) + 1
                 s0 == Xor3(RotR(w[t - 15], 7), RotR(w[t - 15], 18), ShR(w[t - 15], 3))
                 s1 == Xor3(RotR(w[t - 2], 17), RotR(w[t - 2], 19), ShR(w[t - 2], 10)) IN
               Schedule(Append(w, Add(<<w[t - 16], s0, w[t - 7], s1>>)))

      \* one round of the compression function on the working variables a..h
      Round(v, kt, wt) ==
        LET S1 == Xor3(RotR(v[5], 6), RotR(v[5], 11), RotR(v[5], 25))
            ch == Xor(And(v[5], v[6]), And(Not(v[5]), v[7]))
            t1 == Add(<<v[8], S1, ch, kt, wt>>)
            S0 == Xor3(RotR(v[1], 2), RotR(v[1], 13), RotR(v[1], 22))
            maj == Xor3(And(v[1], v[2]), And(v[1], v[3]), And(v[2], v[3]))
            t2 == Add(<<S0, maj>>) IN
          <<Add(<<t1, t2>>), v[1], v[2], v[3], Add(<<v[4], t1>>), v[5], v[6], v[7]>>

      \* the 64 rounds; st.t is the next round and st.v the working variables
      RECURSIVE Rounds(_, _)
      Rounds(st, w) ==
        IF st.t > 64 THEN st.v
        ELSE Rounds([t |-> st.t + 1, v |-> Round(st.v, K256[st.t], w[st.t])], w)

      RECURSIVE Blocks(_, _, _)
      Blocks(hv, p, o) ==
        IF o >= Len(p) THEN hv
        ELSE LET w16 == [i \in 1..16 |-> <<p[o + 4 * i - 3] * 256 + p[o + 4 * i - 2],
                                           p[o + 4 * i - 1] * 256 + p[o + 4 * i]>>]
                 v == Rounds([t |-> 1, v |-> hv], Schedule(w16)) IN
               Blocks([i \in 1..8 |-> Add(<<hv[i], v[i]>>)], p, o + 64)
      digest == Blocks(InitH, Pad(m), 0) IN
    [i \in 1..32 |->
       LET half == digest[((i - 1) \div 4) + 1][(((i - 1) % 4) \div 2) + 1] IN
         IF i % 2 = 1 THEN half \div 256 ELSE half % 256]

\* An encoder with the capital digits A-F.
EncodeToStringUpper(bytes) ==
  [i \in 1..(2 * Len(bytes)) |->
     LET b == bytes[(i + 1) \div 2] IN
       <<"0", "1", "2", "3", "4", "5", "6", "7", "8", "9", "A", "B", "C", "D", "E", "F">>[
         (IF i % 2 = 1 THEN b \div 16 ELSE b % 16) + 1]]

\* hex.EncodeToString: two digits per byte, high nibble first
EncodeToString(bytes) ==
  [i \in 1..(2 * Len(bytes)) |->
     LET b == bytes[(i + 1) \div 2] IN
       <<"0", "1", "2", "3", "4", "5", "6", "7", "8", "9", "a", "b", "c", "d", "e", "f">>[
         (IF i % 2 = 1 THEN b \div 16 ELSE b % 16) + 1]]
HashToken(token) == EncodeToString(Sum256(token))

\* The tokens hashed: bytes of "", "abc", "secret_token_value" (the test's),
\* the same with a trailing space, and 56 times "a" (two blocks).
EmptyToken == <<>>
AbcToken == <<97, 98, 99>>
TestToken ==
  <<115, 101, 99, 114, 101, 116, 95, 116, 111, 107, 101, 110, 95, 118, 97, 108, 117, 101>>
TestTokenSpace == TestToken \o <<32>>
LongToken == [i \in 1..56 |-> 97]
HashTokens == {EmptyToken, AbcToken, TestToken, TestTokenSpace, LongToken}

\* auth_test.go:9: expectedHash
ExpectedHash ==
  <<"d", "f", "d", "d", "0", "8", "3", "4", "5", "d", "b", "4", "0", "4", "2", "b", "b", "4", "0",
  "6", "4", "7", "7", "4", "7", "c", "7", "5", "4", "8", "2", "e", "5", "a", "7", "d", "8", "9",
  "c", "4", "3", "a", "5", "0", "8", "5", "e", "a", "e", "2", "5", "5", "3", "8", "5", "d", "d",
  "0", "6", "7", "5", "6", "6", "9">>

MaxHashCalls == 3

\* a caller hashes a token
HashCall ==
  /\ Len(hashed) < MaxHashCalls
  /\ \E token \in HashTokens :
       hashed' = Append(hashed, [token |-> token, hash |-> HashToken(token)])
  /\ UNCHANGED <<poolVars, gc, req, conns, srv, session, boot>>

HashInit ==
  /\ dbConnections = [d \in Databases |-> NoPool]
  /\ dbMutex = [readers |-> {}, writer |-> 0, pending |-> 0, blocked |-> {}]
  /\ pools = [p \in PoolIds |-> NoDb]
  /\ faulted = {}
  /\ returned = {}
  /\ gc = [c \in Callers |-> GcIdle]
  /\ req = [r \in Requests |-> ReqIdle]
  /\ conns = [p \in PoolIds |-> [c \in ConnIds |-> FreeConn]]
  /\ srv = SrvServing
  /\ session = SessionIdle(DefaultExpiryHours, StartOfClock)
  /\ boot = BootServing
  /\ hashed = <<>>

HashSpec == HashInit /\ [][HashCall]_vars


\* =========================================================================
\* internal/server/server.go: Run's routing table
\* =========================================================================

\* A routing table that hands the capabilities listing to the handler without
\* the middleware.
RouteCapabilitiesPublic(function) ==
  IF function = FnLogin THEN "login"
  ELSE IF function = FnCapabilities THEN "h_start" ELSE "auth"

\* lines 58-63: POST /api/:database/login is registered beside the group's
\* POST /api/:database/:function; gin serves a path by its static route before
\* a parameter route of the same level. The value is the first handler's pc.
Route(function) == IF function = FnLogin THEN "login" ELSE "auth"

\* A listener that stays open through Shutdown.
AcceptingAlways == TRUE

\* srv.ListenAndServe (line 88) accepts connections until srv.Shutdown (line
\* 112) closes the listeners.
Accepting == srv.phase = "serving"

\* The router hands a POST /api/<database>/<function> to its handler chain.
Receive(r) ==
  /\ Accepting
  /\ req[r].pc = "idle"
  /\ \E i \in Calls \cup Logins :
       req' = [req EXCEPT ![r] = [ReqIdle EXCEPT !.pc = Route(i.function), !.database = i.database,
                                                 !.function = i.function, !.hdr = i.hdr, !.body = i.body]]
  /\ UNCHANGED <<poolVars, gc, conns, srv, session, procVars>>

\* The request's context is cancelled (client gone, deadline).
Cancel(r) ==
  /\ req[r].pc \notin {"idle", "done"}
  /\ ~req[r].ctxDone
  /\ req' = [req EXCEPT ![r].ctxDone = TRUE, ![r].txAtCancel = req[r].tx.state]
  /\ UNCHANGED <<poolVars, gc, conns, srv, session, procVars>>

\* The response is on the wire and the handler chain has returned.
Finish(r) ==
  /\ req[r].pc = "done"
  /\ req' = [req EXCEPT ![r] = ReqIdle]
  /\ UNCHANGED <<poolVars, gc, conns, srv, session, procVars>>

\* =========================================================================
\* handleLogin (lines 121-171)
\* =========================================================================

\* lines 133-134: fmt.Sprintf("host=%s port=%d user=%s password=%s dbname=%s sslmode=disable", ...)
FormatConnStr(login, password, database) ==
  <<[key |-> "host", val |-> DBHost], [key |-> "port", val |-> "5432"],
    [key |-> "user", val |-> login], [key |-> "password", val |-> password.head]>>
  \o password.extra
  \o <<[key |-> "dbname", val |-> database], [key |-> "sslmode", val |-> "disable"]>>

\* lines 157-161: the claims of the session token
MintToken(login, database) == Jwt("good", FALSE, login, database)

\* lines 122-143: bind the body (login and password are required), format the
\* connection string, sql.Open (which does not connect yet)
LoginBind(r) ==
  /\ req[r].pc = "login"
  /\ LET b == req[r].body IN
       IF b.kind # "login" \/ b.login = "" \/ b.password.head = ""
         THEN req' = [req EXCEPT ![r].pc = "done",
                                 ![r].writes = @ + 1, ![r].resp = Plain(400, "Invalid request body", NoToken)]
         ELSE \E opened \in BOOLEAN :
                IF opened
                  THEN req' = [req EXCEPT ![r].pc = "login_ping", ![r].tempDB = "open",
                                 ![r].dsn = FormatConnStr(b.login, b.password, req[r].database)]
                  ELSE req' = [req EXCEPT ![r].pc = "done",
                                 ![r].writes = @ + 1, ![r].resp = Plain(500, "Internal authentication error", NoToken)]
  /\ UNCHANGED <<poolVars, gc, conns, srv, session, procVars>>

\* An answer that tells an unknown login from a wrong password.
LoginFailureRevealing(dsn) ==
  IF ParseOpts(dsn, "user") \in Roles
    THEN Plain(401, "Invalid password", NoToken)
    ELSE Plain(401, "Unknown login", NoToken)

\* lines 149-153: the answer to any error of PingContext
LoginFailure(dsn) == Plain(401, "Invalid login or password", NoToken)

\* A handler that returns without closing the verification handle.
TempDBLeaked(state) == state

\* line 143: defer tempDB.Close() runs on every return after sql.Open succeeded
TempDBAtReturn(state) == IF state = "open" THEN "closed" ELSE state

\* lines 145-170: PingContext opens a connection, which authenticates with the
\* connection string; then the token is signed. defer tempDB.Close().
LoginPing(r) ==
  /\ req[r].pc = "login_ping"
  /\ \E connected \in BOOLEAN, signed \in BOOLEAN :
       IF connected /\ ~req[r].ctxDone /\ PgAuthenticates(req[r].dsn)
         THEN IF signed
                THEN req' = [req EXCEPT ![r].pc = "done", ![r].tempDB = TempDBAtReturn(@),
                               ![r].trace = Append(@, Event("ping", <<>>, "ok", ParseOpts(req[r].dsn, "user"))),
                               ![r].writes = @ + 1, ![r].resp = Plain(200, "", MintToken(req[r].body.login, req[r].database))]
                ELSE req' = [req EXCEPT ![r].pc = "done", ![r].tempDB = TempDBAtReturn(@),
                               ![r].trace = Append(@, Event("ping", <<>>, "ok", ParseOpts(req[r].dsn, "user"))),
                               ![r].writes = @ + 1, ![r].resp = Plain(500, "Failed to create session token", NoToken)]
         ELSE req' = [req EXCEPT ![r].pc = "done", ![r].tempDB = TempDBAtReturn(@),
                               ![r].trace = Append(@, Event("ping", <<>>, "err", "")),
                               ![r].writes = @ + 1, ![r].resp = LoginFailure(req[r].dsn)]
  /\ UNCHANGED <<poolVars, gc, conns, srv, session, procVars>>

\* =========================================================================
\* authMiddleware (lines 173-255)
\* =========================================================================

\* A parse that does not look at the exp claim.
JwtValidNoExpiry(t) == t.kind = "jwt" /\ t.sig = "good"

\* lines 194-201: jwt.Parse with the HMAC key function; err == nil && token.Valid
JwtValid(t) == t.kind = "jwt" /\ t.sig = "good" /\ ~t.expired

\* lines 202-206: ok && roleOk && dbRole != "" && dbNameOk
ClaimsOk(t) == t.role # Missing /\ t.role # "" /\ t.db # Missing

\* A middleware that does not compare the databases.
ScopeUnchecked(dbName, requestedDb) == TRUE

\* line 209: the token's database against the path's
ScopeMatches(dbName, requestedDb) == dbName = requestedDb

\* A rejection that writes the error and lets the chain go on to the handler.
RejectNoAbort(r, status, message) ==
  req' = [req EXCEPT ![r].pc = "h_start",
                     ![r].writes = @ + 1, ![r].resp = ErrorEnvelope(status, 0, message, NoId)]

\* c.JSON(status, envelope); c.Abort(); return
Reject(r, status, message) ==
  req' = [req EXCEPT ![r].pc = "done", ![r].aborted = TRUE,
                     ![r].writes = @ + 1, ![r].resp = ErrorEnvelope(status, 0, message, NoId)]

\* lines 175-221: the header and the session-token path
AuthHeader(r) ==
  /\ req[r].pc = "auth"
  /\ LET h == req[r].hdr IN
       IF h.form = "absent" THEN Reject(r, 401, "Authorization header is missing")
       ELSE IF h.form = "one" THEN Reject(r, 401, "Authorization header is malformed")
       ELSE IF ToLower(h.scheme) = "bearer" /\ JwtValid(h.token) /\ ClaimsOk(h.token)
         THEN IF ~ScopeMatches(h.token.db, req[r].database)
                THEN Reject(r, 401, "Invalid token for this database")
                ELSE req' = [req EXCEPT ![r].pc = "h_start", ![r].dbRole = h.token.role]
         ELSE req' = [req EXCEPT ![r].pc = "auth_conn"]
  /\ UNCHANGED <<poolVars, gc, conns, srv, session, procVars>>

\* lines 226-232: the pool of the requested database
AuthGetConn(r) ==
  /\ req[r].pc = "auth_conn"
  /\ \E res \in PoolIds \cup {NoPool} :
       /\ GetConnection(req[r].database, res)
       /\ IF res = NoPool
            THEN Reject(r, 503, "Database connection failed")
            ELSE req' = [req EXCEPT ![r].pc = "auth_verify", ![r].db = res]
  /\ UNCHANGED <<dbMutex, faulted, returned, gc, conns, srv, session, procVars>>

\* A middleware that takes any answer of the query for a role.
VerifyOutcomeAnyAnswer(answered, role) == IF answered THEN "role" ELSE "err"

\* line 245: err == nil && nullRole.Valid
VerifyOutcome(answered, role) ==
  IF ~answered THEN "err" ELSE IF role = Null THEN "null" ELSE "role"

\* lines 237-253: SELECT pgarachne.verify_api_token($1) with the raw token
AuthVerify(r) ==
  /\ req[r].pc = "auth_verify"
  /\ \E answered \in BOOLEAN :
       LET raw == req[r].hdr.token.raw
           role == ApiTokenRole(req[r].database, raw)
           outcome == VerifyOutcome(answered /\ ~req[r].ctxDone, role) IN
         IF outcome # "err"
           THEN IF outcome = "role"
                  THEN req' = [req EXCEPT ![r].pc = "h_start", ![r].dbRole = role,
                                 ![r].trace = Append(@, Event("verify", <<raw>>, "role", DBUser))]
                  ELSE req' = [req EXCEPT ![r].pc = "done", ![r].aborted = TRUE,
                                 ![r].trace = Append(@, Event("verify", <<raw>>, "null", DBUser)),
                                 ![r].writes = @ + 1, ![r].resp = ErrorEnvelope(401, 0, "Invalid or expired token", NoId)]
           ELSE req' = [req EXCEPT ![r].pc = "done", ![r].aborted = TRUE,
                                 ![r].trace = Append(@, Event("verify", <<raw>>, "err", DBUser)),
                                 ![r].writes = @ + 1, ![r].resp = ErrorEnvelope(401, 0, "Invalid or expired token", NoId)]
  /\ UNCHANGED <<poolVars, gc, conns, srv, session, procVars>>

\* =========================================================================
\* handleFunctionCall (lines 257-340)
\* =========================================================================

\* A handler that takes the procedure from the method member of the envelope
\* when it has one.
ProcedureFromMethod(r) ==
  IF req[r].body.method.json = "string" THEN req[r].body.method.text ELSE req[r].function

\* line 259: functionName := c.Param("function")
ProcedureOf(r) == req[r].function

\* lines 310-317: the text of the call; the function segment of the path is
\* formatted into it as it is
BuildQuery(functionName) ==
  IF functionName = FnCapabilities
    THEN <<"SELECT ", "pgarachne.capabilities", "($1::jsonb)::json">>
    ELSE <<"SELECT ">> \o functionName \o <<"($1::jsonb)::json">>

\* SET ROLE without LOCAL: the role lasts for the session.
SetSessionRole(cn, role) == [cn EXCEPT !.sessionRole = role]

\* line 303: SET LOCAL ROLE lasts until the transaction ends
SetLocalRole(cn, role) == [cn EXCEPT !.localRole = role]

\* The end of a transaction on the server: what was SET LOCAL is reverted, and
\* database/sql puts the connection back into the pool.
ReleaseConn(cn) == [cn EXCEPT !.holder = 0, !.localRole = ""]

\* A transaction begun without the request's context.
TxContextIgnored(r) == FALSE

\* line 293: the transaction is bound to c.Request.Context(): ExecContext,
\* QueryRowContext and Commit fail once it is done, and database/sql rolls the
\* transaction back on its own when it is done.
TxContextDone(r) == req[r].ctxDone

\* A statement can run in the transaction: it is open and its context is live.
TxUsable(r) == req[r].tx.state = "open" /\ ~TxContextDone(r)

\* A Rollback that does not look at the done flag.
RollbackOfAnyTx(t) == t.state # "none"

\* Tx.Rollback: takes effect only on a transaction not yet done (ErrTxDone otherwise)
RollbackTakesEffect(t) == t.state = "open"

\* A handler that goes on after a failed SET LOCAL ROLE.
AfterSetRoleNoReturn(ok) == "h_call"

\* line 307: return after a failed SET LOCAL ROLE
AfterSetRole(ok) == IF ok THEN "h_call" ELSE "h_return"

\* A handler that goes on to Commit after a failed call.
AfterCallNoReturn(res) == "h_commit"

\* A handler that calls the procedure again when the call failed.
AfterCallRetry(res) == IF res = "ok" THEN "h_commit" ELSE "h_call"

\* line 328: return after a failed call
AfterCall(res) == IF res = "ok" THEN "h_commit" ELSE "h_return"

\* lines 323-327: the status of a failed call, by the error's text
CallErrorEnvelope(res, id) ==
  IF res \in {"fn_missing", "inner_missing"}
    THEN ErrorEnvelope(404, 0, "Function does not exist", id)
    ELSE ErrorEnvelope(500, 0, "Function call failed", id)

\* line 273: ShouldBindJSON decodes the id into an interface{}: a JSON number
\* becomes a float64, so an integer beyond 2^53 is rounded to the nearest
\* double; strings and small numbers are kept.
DecodeId(id) == IF id = BigId THEN BigIdRounded ELSE id

\* req.ID, as the handler echoes it after the bind of line 273
BoundId(r) == DecodeId(req[r].body.id)

\* A pool that hands out a connection whether or not a transaction holds it.
ConnAny(cn) == TRUE

\* database/sql hands a transaction a connection no one else is using
ConnIdle(cn) == cn.holder = 0

\* A handler that calls the procedure right after BeginTx.
AfterBeginSkipRole == "h_call"

\* lines 299-303: after BeginTx the handler switches the role
AfterBegin == "h_setrole"

\* line 273: ShouldBindJSON fails on a body that is not the JSON of an
\* envelope, or whose method or jsonrpc member is not a string (server.go:350-355)
BindFails(b) == b.kind = "malformed" \/ b.method = NotAString \/ b.jsonrpc = NotAString

\* lines 258-270: the login guard, then the pool of the requested database
HStart(r) ==
  /\ req[r].pc = "h_start"
  /\ IF req[r].function = FnLogin
       THEN /\ req' = [req EXCEPT ![r].pc = "done",
                        ![r].writes = @ + 1, ![r].resp = ErrorEnvelope(403, 0, "Login must be called via the public endpoint", NoId)]
            /\ UNCHANGED <<dbConnections, pools>>
       ELSE \E res \in PoolIds \cup {NoPool} :
              /\ GetConnection(req[r].database, res)
              /\ IF res = NoPool
                   THEN req' = [req EXCEPT ![r].pc = "done",
                                  ![r].writes = @ + 1, ![r].resp = ErrorEnvelope(503, 0, "Database connection failed", NoId)]
                   ELSE req' = [req EXCEPT ![r].pc = "h_bind", ![r].db = res]
  /\ UNCHANGED <<dbMutex, faulted, returned, gc, conns, srv, session, procVars>>

\* A handler that takes any stored role, the empty one included.
RoleNeverMissing(dbRole) == FALSE

\* lines 280-281: dbRole := c.GetString("db_role"); if dbRole == ""
RoleMissing(dbRole) == dbRole = ""

\* lines 272-299: bind the envelope, read the role the middleware stored, begin
\* the transaction on a connection of the pool. (json.Marshal of the params
\* map that ShouldBindJSON produced cannot fail.)
HBegin(r) ==
  /\ req[r].pc = "h_bind"
  /\ LET b == req[r].body
         id == BoundId(r)
         p == req[r].db IN
       IF BindFails(b)
         THEN /\ req' = [req EXCEPT ![r].pc = "done",
                          ![r].writes = @ + 1, ![r].resp = ErrorEnvelope(400, 0, "Invalid JSON request", NoId)]
              /\ UNCHANGED conns
       ELSE IF RoleMissing(req[r].dbRole)
         THEN /\ req' = [req EXCEPT ![r].pc = "done",
                          ![r].writes = @ + 1, ![r].resp = ErrorEnvelope(500, -32000, "Internal Server Error: User role not identified", id)]
              /\ UNCHANGED conns
       ELSE \E began \in BOOLEAN :
              IF began /\ ~req[r].ctxDone
                THEN \E c \in ConnIds :
                       /\ ConnIdle(conns[p][c])
                       /\ conns' = [conns EXCEPT ![p][c].holder = r]
                       /\ req' = [req EXCEPT ![r].pc = AfterBegin,
                                    ![r].tx = [state |-> "open", pool |-> p, conn |-> c],
                                    ![r].trace = Append(@, Event("begin", <<>>, "ok", CurrentRole(conns[p][c])))]
                ELSE /\ req' = [req EXCEPT ![r].pc = "done",
                                 ![r].trace = Append(@, Event("begin", <<>>, "err", "")),
                                 ![r].writes = @ + 1, ![r].resp = ErrorEnvelope(503, 0, "Database unavailable", id)]
                     /\ UNCHANGED conns
  /\ UNCHANGED <<poolVars, gc, srv, session, procVars>>

\* lines 301-307: SET LOCAL ROLE "<dbRole>"
HSetRole(r) ==
  /\ req[r].pc = "h_setrole"
  /\ LET t == req[r].tx IN
       \E granted \in BOOLEAN :
         LET ok == granted /\ TxUsable(r) IN
           /\ req' = [req EXCEPT ![r].pc = AfterSetRole(ok),
                        ![r].trace = Append(@, Event("setrole", <<req[r].dbRole>>, IF ok THEN "ok" ELSE "err", "")),
                        ![r].writes = IF ok THEN @ ELSE @ + 1,
                        ![r].resp = IF ok THEN @
                                    ELSE ErrorEnvelope(403, -32001, "Permission denied for the specified role", BoundId(r))]
           /\ conns' = IF ok THEN [conns EXCEPT ![t.pool][t.conn] = SetLocalRole(@, req[r].dbRole)]
                       ELSE conns
  /\ UNCHANGED <<poolVars, gc, srv, session, procVars>>

\* lines 309-329: SELECT <function>($1::jsonb)::json inside the transaction
HCall(r) ==
  /\ req[r].pc = "h_call"
  /\ LET t == req[r].tx IN
       \E out \in {"ok", "fn_missing", "inner_missing", "fail"} :
         LET res == IF TxUsable(r) THEN out ELSE "fail"
             as == IF TxUsable(r) THEN CurrentRole(conns[t.pool][t.conn]) ELSE "" IN
           req' = [req EXCEPT ![r].pc = AfterCall(res),
                     ![r].trace = Append(@, Event("call", BuildQuery(ProcedureOf(r)), res, as)),
                     ![r].writes = IF res = "ok" THEN @ ELSE @ + 1,
                     ![r].resp = IF res = "ok" THEN @ ELSE CallErrorEnvelope(res, BoundId(r))]
  /\ UNCHANGED <<poolVars, gc, conns, srv, session, procVars>>

\* line 331, first half: Tx.Commit refuses when the transaction's context is
\* done or the transaction is; otherwise it marks the transaction done and
\* sends COMMIT.
HCommit(r) ==
  /\ req[r].pc = "h_commit"
  /\ IF TxUsable(r)
       THEN req' = [req EXCEPT ![r].pc = "h_committing", ![r].tx.state = "committing"]
       ELSE req' = [req EXCEPT ![r].pc = "h_return",
                      ![r].trace = Append(@, Event("commit", <<>>, "refused", "")),
                      ![r].writes = @ + 1, ![r].resp = ErrorEnvelope(500, 0, "Transaction commit failed", BoundId(r))]
  /\ UNCHANGED <<poolVars, gc, conns, srv, session, procVars>>

\* A handler that answers with the result whatever Commit returned.
CommitEnvelopeOptimistic(committed, id) == ResultEnvelope(id)

\* lines 331-339: the envelope after Commit: the error when it failed, the
\* result when it succeeded
CommitEnvelope(committed, id) ==
  IF committed THEN ResultEnvelope(id)
  ELSE ErrorEnvelope(500, 0, "Transaction commit failed", id)

\* lines 331-339: the server's answer to COMMIT. A COMMIT that fails leaves the
\* transaction rolled back on the server.
HCommitDone(r) ==
  /\ req[r].pc = "h_committing"
  /\ LET t == req[r].tx IN
       /\ \E committed \in BOOLEAN :
            IF committed
              THEN req' = [req EXCEPT ![r].pc = "h_return", ![r].tx.state = "committed",
                             ![r].trace = Append(@, Event("commit", <<>>, "ok", "")),
                             ![r].writes = @ + 1, ![r].resp = CommitEnvelope(TRUE, BoundId(r))]
              ELSE req' = [req EXCEPT ![r].pc = "h_return", ![r].tx.state = "rolledback",
                             ![r].trace = Append(@, Event("commit", <<>>, "err", "")),
                             ![r].writes = @ + 1, ![r].resp = CommitEnvelope(FALSE, BoundId(r))]
       /\ conns' = [conns EXCEPT ![t.pool][t.conn] = ReleaseConn(@)]
  /\ UNCHANGED <<poolVars, gc, srv, session, procVars>>

\* line 299: defer tx.Rollback(), run as the handler returns
HReturn(r) ==
  /\ req[r].pc = "h_return"
  /\ LET t == req[r].tx IN
       IF RollbackTakesEffect(t)
         THEN /\ req' = [req EXCEPT ![r].pc = "done", ![r].tx.state = "rolledback",
                          ![r].trace = Append(@, Event("rollback", <<"defer">>, "ok", ""))]
              /\ conns' = [conns EXCEPT ![t.pool][t.conn] =
                             IF @.holder = r THEN ReleaseConn(@) ELSE @]
         ELSE /\ req' = [req EXCEPT ![r].pc = "done"]
              /\ UNCHANGED conns
  /\ UNCHANGED <<poolVars, gc, srv, session, procVars>>

\* database/sql's watcher of the transaction's context (Tx.awaitDone): when the
\* context is done it rolls the open transaction back and closes its connection.
TxAwaitDone(r) ==
  /\ req[r].tx.state = "open"
  /\ TxContextDone(r)
  /\ LET t == req[r].tx IN
       /\ req' = [req EXCEPT ![r].tx.state = "rolledback",
                    ![r].trace = Append(@, Event("rollback", <<"ctx">>, "ok", ""))]
       /\ conns' = [conns EXCEPT ![t.pool][t.conn] = FreeConn]
  /\ UNCHANGED <<poolVars, gc, srv, session, procVars>>

\* =========================================================================
\* Specifications
\* =========================================================================
Init ==
  /\ dbConnections = [d \in Databases |-> NoPool]
  /\ dbMutex = [readers |-> {}, writer |-> 0, pending |-> 0, blocked |-> {}]
  /\ pools = [p \in PoolIds |-> NoDb]
  /\ faulted = {}
  /\ returned = {}
  /\ gc = [c \in Callers |-> GcIdle]
  /\ req = [r \in Requests |-> ReqIdle]
  /\ conns = [p \in PoolIds |-> [c \in ConnIds |-> FreeConn]]
  /\ srv = SrvServing
  /\ boot = BootServing
  /\ hashed = <<>>
  /\ session = SessionIdle(DefaultExpiryHours, StartOfClock)

RequestStep(r) ==
  \/ Receive(r)
  \/ Cancel(r)
  \/ Finish(r)
  \/ LoginBind(r)
  \/ LoginPing(r)
  \/ AuthHeader(r)
  \/ AuthGetConn(r)
  \/ AuthVerify(r)
  \/ HStart(r)
  \/ HBegin(r)
  \/ HSetRole(r)
  \/ HCall(r)
  \/ HCommit(r)
  \/ HCommitDone(r)
  \/ HReturn(r)
  \/ TxAwaitDone(r)

Next == \E r \in Requests : RequestStep(r)

Spec == Init /\ [][Next]_vars

PoolNext == \E c \in Callers : GetConnectionStep(c) /\ UNCHANGED <<req, conns, srv, session, procVars>>

PoolSpec == Init /\ [][PoolNext]_vars

\* The steps of a call that wait for nothing but the caller's own goroutine
\* and the answer of a probe or of sql.Open (a blocked RLock or Lock is
\* finished by the release that lets it in), and the step that waits for its
\* turn among the writers.
CallProgress(c) ==
  /\ GcRLock(c) \/ GcRead(c) \/ GcPing(c) \/ GcRecheck(c) \/ GcOpen(c) \/ GcRegister(c)
  /\ UNCHANGED <<req, conns, srv, session, procVars>>

Acquire(c) ==
  /\ GcLock(c)
  /\ UNCHANGED <<req, conns, srv, session, procVars>>

\* PoolSpec with the scheduling Go gives: a runnable goroutine runs and every
\* probe ends (weak fairness of the steps of a call); the writers of a
\* sync.RWMutex queue on a sync.Mutex, which starves none of them (strong
\* fairness of Lock's turn).
PoolFairSpec ==
  /\ PoolSpec
  /\ \A c \in Callers : WF_vars(CallProgress(c)) /\ SF_vars(Acquire(c))

\* Requests served at the same time, each on its own goroutine: calls of a
\* procedure of shop and of the capabilities listing with a session token,
\* calls that fail each check of the middleware, and logins that fail.
ConcInputs ==
  [database : {"shop"}, function : {FnPlain, FnCapabilities},
   hdr : {[form |-> "two", scheme |-> "Bearer", token |-> Jwt("good", FALSE, "demo", "shop")]},
   body : {RpcBody("7")}]
  \cup
  [database : {"shop"}, function : {FnPlain},
   hdr : { [form |-> "absent", scheme |-> "", token |-> NoToken],
           [form |-> "one", scheme |-> "", token |-> NoToken],
           [form |-> "two", scheme |-> "Bearer", token |-> Jwt("good", FALSE, "demo", "crm")],
           [form |-> "two", scheme |-> "Bearer", token |-> Opaque("garbage")] },
   body : {RpcBody("7")}]
  \cup
  [database : Databases, function : {FnLogin},
   hdr : {[form |-> "absent", scheme |-> "", token |-> NoToken]},
   body : {LoginBody("demo", Text("nope")), LoginBody("ghost", Text("pw-demo"))}]

ConcReceive(r) ==
  /\ Accepting
  /\ req[r].pc = "idle"
  /\ \E i \in ConcInputs :
       req' = [req EXCEPT ![r] = [ReqIdle EXCEPT !.pc = Route(i.function), !.database = i.database,
                                                 !.function = i.function, !.hdr = i.hdr, !.body = i.body]]
  /\ UNCHANGED <<poolVars, gc, conns, srv, session, procVars>>

ConcInit ==
  /\ dbConnections = [d \in Databases |-> NoPool]
  /\ dbMutex = [readers |-> {}, writer |-> 0, pending |-> 0, blocked |-> {}]
  /\ pools = [p \in PoolIds |-> NoDb]
  /\ faulted = {}
  /\ returned = {}
  /\ gc = [c \in Callers |-> GcIdle]
  /\ req = [r \in ConcRequests |-> ReqIdle]
  /\ conns = [p \in PoolIds |-> [c \in ConnIds |-> FreeConn]]
  /\ srv = SrvServing
  /\ boot = BootServing
  /\ hashed = <<>>
  /\ session = SessionIdle(DefaultExpiryHours, StartOfClock)

ConcStep(r) ==
  \/ ConcReceive(r)
  \/ Cancel(r)
  \/ Finish(r)
  \/ LoginBind(r)
  \/ LoginPing(r)
  \/ AuthHeader(r)
  \/ AuthGetConn(r)
  \/ AuthVerify(r)
  \/ HStart(r)
  \/ HBegin(r)
  \/ HSetRole(r)
  \/ HCall(r)
  \/ HCommit(r)
  \/ HCommitDone(r)
  \/ HReturn(r)
  \/ TxAwaitDone(r)

ConcNext == \E r \in ConcRequests : ConcStep(r)

ConcSpec == ConcInit /\ [][ConcNext]_vars

\* A call of a procedure of shop with a session token, and the same call with
\* other method and jsonrpc members in its envelope, served at the same time:
\* request 1 carries the envelope as a client library writes it, the others a
\* variant of it.
TwinBodies(r) ==
  IF r = 1 THEN {RpcBody("7")}
  ELSE {RpcBodyWith("7", JsonString(FnQualified), TagV2), RpcBodyWith("7", JsonString(FnPlain), TagV1),
        RpcBodyWith("7", JsonAbsent, JsonAbsent), RpcBodyWith("7", NotAString, TagV2)}

TwinReceive(r) ==
  /\ Accepting
  /\ req[r].pc = "idle"
  /\ \E b \in TwinBodies(r) :
       req' = [req EXCEPT ![r] = [ReqIdle EXCEPT !.pc = Route(FnPlain), !.database = "shop",
                                    !.function = FnPlain,
                                    !.hdr = [form |-> "two", scheme |-> "Bearer",
                                             token |-> Jwt("good", FALSE, "demo", "shop")],
                                    !.body = b]]
  /\ UNCHANGED <<poolVars, gc, conns, srv, session, procVars>>

TwinStep(r) ==
  \/ TwinReceive(r)
  \/ Cancel(r)
  \/ Finish(r)
  \/ AuthHeader(r)
  \/ HStart(r)
  \/ HBegin(r)
  \/ HSetRole(r)
  \/ HCall(r)
  \/ HCommit(r)
  \/ HCommitDone(r)
  \/ HReturn(r)
  \/ TxAwaitDone(r)

TwinNext == \E r \in ConcRequests : TwinStep(r)

TwinSpec == ConcInit /\ [][TwinNext]_vars

\* =========================================================================
\* Session tokens and the clock (handleLogin lines 159-163, authMiddleware
\* lines 194-201)
\* =========================================================================

\* time.Time.Unix(): the whole seconds of an instant
Unix(t) == t \div TicksPerSecond

\* line 160: time.Now().Add(time.Duration(s.Cfg.JWTExpiryHours) * time.Hour)
ExpirationTime(now, hours) == now + hours * HourTicks

\* line 161: "exp": expirationTime.Unix()
ExpClaim(now, hours) == Unix(ExpirationTime(now, hours))

\* A check that accepts a token in the second of its expiry.
VerifyExpInclusive(exp, now) == Unix(now) <= exp

\* lines 194-201: jwt.Parse validates the claims; the token is unexpired while
\* the current time, taken in whole seconds, is before exp
VerifyExp(exp, now) == Unix(now) < exp

\* Time passes: a tick, at the instants within MaxOffset ticks of a whole hour
\* on either side, or the run from the ticks after a whole hour to MaxOffset
\* ticks before the next.
ClockTick ==
  /\ (session.now + 1 + MaxOffset) % HourTicks <= 2 * MaxOffset
  /\ session.now + 1 <= MaxHours * HourTicks + MaxOffset
  /\ session' = [session EXCEPT !.now = @ + 1, !.presentedAt = NoTime, !.accepted = FALSE]
  /\ UNCHANGED <<poolVars, gc, req, conns, srv, procVars>>

ClockHour ==
  /\ session.now % HourTicks <= MaxOffset
  /\ session.now \div HourTicks < MaxHours
  /\ session' = [session EXCEPT !.now = (session.now \div HourTicks + 1) * HourTicks - MaxOffset,
                                !.presentedAt = NoTime, !.accepted = FALSE]
  /\ UNCHANGED <<poolVars, gc, req, conns, srv, procVars>>

\* lines 159-163: a login succeeded and its token is minted
Mint ==
  /\ session.phase = "idle"
  /\ session' = [session EXCEPT !.phase = "minted", !.issued = session.now,
                                !.exp = ExpClaim(session.now, session.hours)]
  /\ UNCHANGED <<poolVars, gc, req, conns, srv, procVars>>

\* lines 194-201: the token is presented and its expiry checked
Present ==
  /\ session.phase = "minted"
  /\ session' = [session EXCEPT !.presentedAt = session.now,
                                !.accepted = VerifyExp(session.exp, session.now)]
  /\ UNCHANGED <<poolVars, gc, req, conns, srv, procVars>>

\* The configuration is loaded before the server starts (auth.go:120-129); the
\* clock starts at any tick of its first seconds.
ExpiryInit ==
  /\ dbConnections = [d \in Databases |-> NoPool]
  /\ dbMutex = [readers |-> {}, writer |-> 0, pending |-> 0, blocked |-> {}]
  /\ pools = [p \in PoolIds |-> NoDb]
  /\ faulted = {}
  /\ returned = {}
  /\ gc = [c \in Callers |-> GcIdle]
  /\ req = [r \in Requests |-> ReqIdle]
  /\ conns = [p \in PoolIds |-> [c \in ConnIds |-> FreeConn]]
  /\ srv = SrvServing
  /\ boot = BootServing
  /\ hashed = <<>>
  /\ \E hours \in ExpiryHours, now \in StartOfClock..MaxOffset :
       session = SessionIdle(hours, now)

ExpiryNext == ClockTick \/ ClockHour \/ Mint \/ Present

ExpirySpec == ExpiryInit /\ [][ExpiryNext]_vars

\* =========================================================================
\* Run: shutdown (lines 98-119) and the end of the process (main)
\* =========================================================================
ShutdownGrace == 5                       \* line 111: context.WithTimeout(..., 5*time.Second)

\* No request is being served: every connection of the server is idle.
AllIdle == \A r \in Requests : req[r].pc = "idle"

\* lines 102-112: the signal is taken from quit; Shutdown closes the listeners
Signal ==
  /\ srv.phase = "serving"
  /\ srv' = [srv EXCEPT !.phase = "draining"]
  /\ UNCHANGED <<poolVars, gc, req, conns, session, procVars>>

\* A second of the context's five passes while Shutdown waits.
GraceTick ==
  /\ srv.phase = "draining"
  /\ srv.elapsed < ShutdownGrace
  /\ srv' = [srv EXCEPT !.elapsed = @ + 1]
  /\ UNCHANGED <<poolVars, gc, req, conns, session, procVars>>

\* lines 112, 117-118: Shutdown found every connection idle and returns nil;
\* Run returns nil
ShutdownDrained ==
  /\ srv.phase = "draining"
  /\ AllIdle
  /\ srv' = [srv EXCEPT !.phase = "returned", !.err = "nil"]
  /\ UNCHANGED <<poolVars, gc, req, conns, session, procVars>>

\* lines 112-115: the context expires while a request is being served:
\* Shutdown returns the context's error, and Run returns it, closing nothing
ShutdownTimedOut ==
  /\ srv.phase = "draining"
  /\ srv.elapsed = ShutdownGrace
  /\ ~AllIdle
  /\ srv' = [srv EXCEPT !.phase = "returned", !.err = "deadline"]
  /\ UNCHANGED <<poolVars, gc, req, conns, session, procVars>>

\* What becomes of a transaction when the process ends: the database server
\* rolls back a transaction whose connection is lost; a COMMIT already sent may
\* have been carried out or not.
TxAtExit(t, committed) ==
  IF t.state = "open" THEN [t EXCEPT !.state = "rolledback"]
  ELSE IF t.state = "committing"
    THEN [t EXCEPT !.state = IF committed THEN "committed" ELSE "rolledback"]
    ELSE t

\* main: Run returned; main returns, or calls os.Exit(1) when Run returned an
\* error. The process ends: its goroutines stop where they are and every
\* socket it held, the pools' connections included, is closed.
ProcessExit ==
  /\ srv.phase = "returned"
  /\ srv' = [srv EXCEPT !.phase = "exited"]
  /\ \E committed \in BOOLEAN :
       req' = [r \in Requests |->
                 IF req[r].pc = "idle" THEN req[r]
                 ELSE [req[r] EXCEPT !.pc = "killed", !.ctxDone = TRUE,
                                     !.tx = TxAtExit(@, committed),
                                     !.tempDB = TempDBAtReturn(@)]]
  /\ conns' = [p \in PoolIds |-> [c \in ConnIds |-> FreeConn]]
  /\ UNCHANGED <<poolVars, gc, session, procVars>>

ShutNext ==
  \/ \E r \in Requests : RequestStep(r)
  \/ Signal
  \/ GraceTick
  \/ ShutdownDrained
  \/ ShutdownTimedOut
  \/ ProcessExit

ShutSpec == Init /\ [][ShutNext]_vars

\* =========================================================================
\* Properties
\* =========================================================================
Events(r, op) == {i \in 1..Len(req[r].trace) : req[r].trace[i].op = op}
EventsWith(r, op, res) ==
  {i \in 1..Len(req[r].trace) : req[r].trace[i].op = op /\ req[r].trace[i].res = res}

\* A dispatch: an execution of handleFunctionCall that began a transaction.
Dispatched(r) == EventsWith(r, "begin", "ok") # {}

\* The commits and the rollbacks of the request's transaction. A rollback is
\* one that Tx.Rollback or database/sql's context watcher carried out, or the
\* server's own when COMMIT failed.
Commits(r) == Cardinality(EventsWith(r, "commit", "ok"))
Rollbacks(r) == Cardinality(Events(r, "rollback")) + Cardinality(EventsWith(r, "commit", "err"))

\* C1: every dispatch ends with exactly one commit (and then answers 200) or
\* exactly one rollback (and then answers an error) of its transaction, never
\* both and never neither; before it ends it has had at most one of them.
C1_OneCommitOrOneRollback ==
  \A r \in Requests :
    Dispatched(r) =>
      /\ Commits(r) + Rollbacks(r) <= 1
      /\ req[r].pc = "done" =>
           /\ Commits(r) + Rollbacks(r) = 1
           /\ (Commits(r) = 1) <=> (req[r].resp.status = 200)
           /\ (Commits(r) = 1) <=> (req[r].tx.state = "committed")
           /\ (Rollbacks(r) = 1) <=> (req[r].tx.state = "rolledback")

\* A dispatch whose COMMIT failed has returned: one rollback, no commit.
C1_Witness ==
  \E r \in Requests :
    /\ req[r].pc = "done"
    /\ EventsWith(r, "commit", "err") # {}
    /\ Rollbacks(r) = 1
    /\ Commits(r) = 0

\* C2: when SET LOCAL ROLE fails, the procedure is never invoked in that
\* dispatch and its transaction is never committed (COMMIT is not even sent).
C2_NoCallAfterFailedRoleSwitch ==
  \A r \in Requests :
    EventsWith(r, "setrole", "err") # {} =>
      /\ Events(r, "call") = {}
      /\ Events(r, "commit") = {}
      /\ req[r].tx.state \in {"open", "rolledback"}
      /\ req[r].pc \in {"h_return", "done"}
      /\ req[r].pc = "done" => req[r].tx.state = "rolledback"

\* The role switch of a dispatch failed and the handler has returned 403.
C2_Witness ==
  \E r \in Requests :
    /\ req[r].pc = "done"
    /\ EventsWith(r, "setrole", "err") # {}
    /\ req[r].resp.status = 403
    /\ req[r].tx.state = "rolledback"

\* A session credential for database d: a token signed with the gateway's
\* secret, unexpired, carrying a role and d.
SessionCredentialFor(t, d) ==
  t.kind = "jwt" /\ t.sig = "good" /\ ~t.expired /\ t.role \in Roles /\ t.db = d

\* The request is served by the protected route and its middleware has
\* looked at the header.
PastHeader(r) == Route(req[r].function) = "auth" /\ req[r].pc \notin {"idle", "auth"}

\* C3: a session credential minted for one database, presented as the bearer
\* of a protected request for another database, is rejected with 401 "Invalid
\* token for this database" and the chain is aborted; the bearer is not handed
\* to verify_api_token and no role is resolved.
C3_ScopeMismatchRejected ==
  \A r \in Requests :
    (/\ PastHeader(r)
     /\ req[r].hdr.form = "two"
     /\ req[r].hdr.scheme = "Bearer"
     /\ \E d \in Databases \ {req[r].database} : SessionCredentialFor(req[r].hdr.token, d))
    => /\ req[r].pc = "done"
       /\ req[r].aborted
       /\ req[r].resp.status = 401
       /\ req[r].resp.message = "Invalid token for this database"
       /\ req[r].dbRole = ""
       /\ req[r].trace = <<>>
       /\ req[r].db = NoPool

\* A token minted for crm was presented to shop and has been answered.
C3_Witness ==
  \E r \in Requests :
    /\ req[r].pc = "done"
    /\ Route(req[r].function) = "auth"
    /\ req[r].database = "shop"
    /\ req[r].hdr.scheme = "Bearer"
    /\ SessionCredentialFor(req[r].hdr.token, "crm")
    /\ req[r].resp.status = 401

\* The pool objects opened for database d.
PoolsOf(d) == {p \in PoolIds : pools[p] = d}

\* C4: while no Open and no probe for a database name has failed, any number
\* of concurrent first-use calls of GetConnection for it create at most one
\* pool, every call that has returned has returned the registered pool, and
\* the registry holds no pool other than that one.
C4_OnePoolPerName ==
  \A d \in Databases \ faulted :
    /\ Cardinality(PoolsOf(d)) <= 1
    /\ \A e \in returned : e[1] = d => e[2] = dbConnections[d] /\ PoolsOf(d) = {e[2]}
    /\ dbConnections[d] # NoPool => PoolsOf(d) = {dbConnections[d]}

\* Two callers found no pool for the same name; one has created and registered
\* it and returned, the other is at the double check under the lock.
C4_Witness ==
  \E c \in Callers, d \in Databases \ faulted :
    /\ gc[c].pc = "recheck"
    /\ gc[c].dbName = d
    /\ gc[c].db = NoPool
    /\ dbConnections[d] # NoPool
    /\ <<d, dbConnections[d]>> \in returned

\* The login and the secret of the body are a valid credential of the server.
ValidCredential(b) == b.login \in Roles /\ b.password = Text(PgPassword[b.login])

\* C5: a session token is returned only by the login route, only after the
\* wire-level authentication of the body's {login, secret} against the path's
\* database succeeded; its database is the path's and its role the login.
C5_TokenOnlyForAuthenticatedLogin ==
  \A r \in Requests :
    req[r].resp.token # NoToken =>
      /\ Route(req[r].function) = "login"
      /\ req[r].resp.status = 200
      /\ EventsWith(r, "ping", "ok") # {}
      /\ req[r].resp.token.db = req[r].database
      /\ req[r].resp.token.role = req[r].body.login
      /\ ValidCredential(req[r].body)
      /\ \A i \in EventsWith(r, "ping", "ok") : req[r].trace[i].as = req[r].body.login

\* C6: a connection that no transaction holds runs as the pool's own login:
\* nothing of an earlier request's role is left on it, whether its transaction
\* was committed or rolled back; so a transaction begins as the pool's login
\* and each call runs as the role of its own request.
C6_NoResidualRole ==
  /\ \A p \in PoolIds, c \in ConnIds :
       conns[p][c].holder = 0 => CurrentRole(conns[p][c]) = DBUser
  /\ \A r \in Requests :
       /\ \A i \in EventsWith(r, "begin", "ok") : req[r].trace[i].as = DBUser
       /\ \A i \in Events(r, "call") : req[r].trace[i].as \in {req[r].dbRole, ""}

\* A dispatch switched the role, committed, and its connection is back in the pool.
C6_Witness ==
  \E r \in Requests :
    /\ req[r].pc = "done"
    /\ EventsWith(r, "setrole", "ok") # {}
    /\ req[r].tx.state = "committed"
    /\ conns[req[r].tx.pool][req[r].tx.conn].holder = 0

\* C7: a protected request answered with an error envelope has committed
\* nothing: its transaction, if one was begun, is not committed and no COMMIT
\* is in flight, and it is rolled back by the time the handler has returned.
C7_ErrorMeansNotCommitted ==
  \A r \in Requests :
    (Route(req[r].function) = "auth" /\ req[r].resp.status >= 400) =>
      /\ req[r].tx.state \in {"none", "open", "rolledback"}
      /\ Commits(r) = 0
      /\ req[r].pc = "done" => req[r].tx.state \in {"none", "rolledback"}
      /\ (req[r].pc = "done" /\ Dispatched(r)) => req[r].tx.state = "rolledback"

\* The procedure was invoked, failed, and the handler has returned the error.
C7_Witness ==
  \E r \in Requests :
    /\ req[r].pc = "done"
    /\ EventsWith(r, "call", "fail") # {}
    /\ req[r].resp.status = 500
    /\ req[r].tx.state = "rolledback"

\* C8 (as stated): when the request's context is cancelled while the
\* transaction is in flight, that is open or with its COMMIT under way, the
\* transaction ends rolled back and not committed.
C8_CancelInFlightRollsBack ==
  \A r \in Requests :
    (req[r].pc = "done" /\ req[r].txAtCancel \in {"open", "committing"})
      => req[r].tx.state = "rolledback" /\ Commits(r) = 0

\* C8 (amended): when the request's context is cancelled while the transaction
\* is open, before Tx.Commit has passed its check of the context, the
\* transaction is never committed and is rolled back by the time the handler
\* has returned; and whenever the context is cancelled, no transaction is open
\* or committing once the handler has returned.
C8_CancelBeforeCommitRollsBack ==
  \A r \in Requests :
    /\ req[r].txAtCancel = "open" =>
         /\ req[r].tx.state \in {"open", "rolledback"}
         /\ Commits(r) = 0
         /\ req[r].pc = "done" => req[r].tx.state = "rolledback"
    /\ req[r].pc = "done" => req[r].tx.state \notin {"open", "committing"}

\* The context was cancelled while the transaction was open; the handler has
\* returned and the transaction is rolled back.
C8_Witness ==
  \E r \in Requests :
    /\ req[r].pc = "done"
    /\ req[r].txAtCancel = "open"
    /\ req[r].tx.state = "rolledback"
    /\ Rollbacks(r) = 1

\* The identifier grammar of the specification: letters, digits and the
\* underscore, not starting with a digit; optionally one schema qualification.
Letters ==
  {"a", "b", "c", "d", "e", "f", "g", "h", "i", "j", "k", "l", "m",
   "n", "o", "p", "q", "r", "s", "t", "u", "v", "w", "x", "y", "z", "_"}
Digits == {"0", "1", "2", "3", "4", "5", "6", "7", "8", "9"}
IsIdentifier(s) ==
  /\ Len(s) > 0
  /\ s[1] \in Letters
  /\ \A i \in 1..Len(s) : s[i] \in Letters \cup Digits
MatchesGrammar(name) ==
  \/ IsIdentifier(name)
  \/ \E i \in 1..Len(name) :
       /\ name[i] = "."
       /\ IsIdentifier(SubSeq(name, 1, i - 1))
       /\ IsIdentifier(SubSeq(name, i + 1, Len(name)))

\* C9: the text of every call that reaches the database was built from a
\* procedure name that matches the identifier grammar.
C9_OnlyGrammaticalNamesInQueryText ==
  \A r \in Requests :
    \A i \in Events(r, "call") :
      req[r].trace[i].as # "" =>
        \E name \in FunctionNames :
          /\ MatchesGrammar(name)
          /\ req[r].trace[i].arg = BuildQuery(name)

\* C10: a POST to /api/{database}/login is answered with 403, whatever its
\* bearer, and the name login is never sent to the database as a call.
C10_LoginPathAnswers403 ==
  \A r \in Requests :
    req[r].function = FnLogin =>
      /\ req[r].pc = "done" => req[r].resp.status = 403
      /\ Events(r, "call") = {}

\* The header presents a session credential: a bearer that is a token signed
\* with the gateway's secret, unexpired, with a role and a database claim.
PresentsSessionCredential(h) ==
  /\ h.form = "two"
  /\ h.scheme = "Bearer"
  /\ h.token.kind = "jwt" /\ h.token.sig = "good" /\ ~h.token.expired
  /\ h.token.role \notin {Missing, ""}
  /\ h.token.db # Missing

\* The request is in handleFunctionCall, or has been.
InHandler(r) ==
  req[r].pc \in {"h_start", "h_bind", "h_setrole", "h_call", "h_commit", "h_committing", "h_return"}
  \/ (req[r].pc = "done" /\ ~req[r].aborted /\ Route(req[r].function) = "auth")

\* The events of the dispatcher in the history of r.
DispatchEvents(r) ==
  {i \in 1..Len(req[r].trace) : req[r].trace[i].op \in {"begin", "setrole", "call", "commit", "rollback"}}

ExpiredSessionToken(h) ==
  /\ h.form = "two" /\ h.scheme = "Bearer"
  /\ h.token.kind = "jwt" /\ h.token.sig = "good" /\ h.token.expired

\* C12 (as stated): a protected call with an expired session token is
\* answered with 401 and is never dispatched.
C12_ExpiredTokenAnswered401 ==
  \A r \in Requests :
    (Route(req[r].function) = "auth" /\ ExpiredSessionToken(req[r].hdr)) =>
      /\ DispatchEvents(r) = {}
      /\ req[r].pc = "done" => req[r].resp.status = 401

\* C12 (amended): a protected call with an expired session token is never
\* given a role and never dispatched; it is answered 401 once the pool of the
\* requested database was had, and 503 when it could not be had.
C12_ExpiredTokenNeverDispatched ==
  \A r \in Requests :
    (Route(req[r].function) = "auth" /\ ExpiredSessionToken(req[r].hdr)) =>
      /\ DispatchEvents(r) = {}
      /\ req[r].dbRole = ""
      /\ ~InHandler(r)
      /\ req[r].pc = "done" =>
           /\ req[r].aborted
           /\ req[r].resp.status \in {401, 503}
           /\ req[r].resp.status = 401 <=> Events(r, "verify") # {}
           /\ req[r].resp.status = 503 <=> req[r].db = NoPool

\* An expired session token went through the verification and was answered 401.
C12_Witness ==
  \E r \in Requests :
    /\ req[r].pc = "done"
    /\ Route(req[r].function) = "auth"
    /\ ExpiredSessionToken(req[r].hdr)
    /\ EventsWith(r, "verify", "null") # {}
    /\ req[r].resp.status = 401

\* C13: a registry entry is replaced only after a probe for its name failed,
\* and only by a pool created just then; no step of GetConnection changes or
\* closes a pool object once it exists, so every pool ever returned to a
\* caller stays the pool of its database after the entry was replaced.
C13_ReplacementLeavesOldPool ==
  /\ [](\A e \in returned : pools[e[2]] = e[1])
  /\ [][/\ \A p \in PoolIds : pools[p] # NoDb => pools'[p] = pools[p]
        /\ \A d \in Databases :
             dbConnections'[d] # dbConnections[d] =>
               /\ dbConnections'[d] # NoPool
               /\ pools[dbConnections'[d]] = d
               /\ <<d, dbConnections'[d]>> \notin returned
               /\ dbConnections[d] # NoPool => d \in faulted]_vars

\* A caller was handed a pool; the probe of that pool failed later and the
\* entry now names another pool; the pool handed out is as it was.
C13_Witness ==
  \E d \in Databases, p \in PoolIds :
    /\ <<d, p>> \in returned
    /\ dbConnections[d] \notin {NoPool, p}
    /\ pools[p] = d

\* The connections a request's transaction holds.
HeldBy(r) == {pc \in PoolIds \X ConnIds : conns[pc[1]][pc[2]].holder = r}

\* The transaction of r is in flight: begun, and neither committed nor rolled back.
InFlight(r) == req[r].tx.state \in {"open", "committing"}

\* C14: a dispatch holds exactly one connection of its pool, the one its
\* transaction was begun on, from begin until the transaction has ended, and
\* none otherwise; the connection of a transaction in flight does not change;
\* two requests whose transactions are in flight at the same time are on
\* different connections.
C14_OneConnectionPerDispatch ==
  /\ [](\A r \in ConcRequests :
          /\ InFlight(r) =>
               /\ HeldBy(r) = {<<req[r].tx.pool, req[r].tx.conn>>}
               /\ req[r].tx.pool = req[r].db
          /\ ~InFlight(r) => HeldBy(r) = {}
          /\ \A q \in ConcRequests \ {r} :
               (InFlight(r) /\ InFlight(q)) =>
                 <<req[r].tx.pool, req[r].tx.conn>> # <<req[q].tx.pool, req[q].tx.conn>>)
  /\ [][\A r \in ConcRequests :
          (InFlight(r) /\ req'[r].tx.state # "none") =>
            (req'[r].tx.pool = req[r].tx.pool /\ req'[r].tx.conn = req[r].tx.conn)]_vars

\* Two requests have their transactions in flight on the same pool at once.
C14_Witness ==
  \E r, q \in ConcRequests :
    /\ r # q
    /\ InFlight(r) /\ InFlight(q)
    /\ req[r].tx.pool = req[q].tx.pool
    /\ req[r].pc = "h_call" /\ req[q].pc = "h_committing"

\* The positions in the history of r of the dispatcher's step op.
StepsOf(r, op) == {i \in DispatchEvents(r) : req[r].trace[i].op = op}

\* Some event op with result res lies before position i in the history of r.
Before(r, i, op, res) ==
  \E j \in 1..(i - 1) : req[r].trace[j].op = op /\ req[r].trace[j].res = res

\* C15: in the history of one request each step of the dispatcher occurs at
\* most once and in the order begin, set role, call, commit: the role is set
\* only after the transaction was begun, the procedure is called only after
\* the role switch succeeded, and Commit is called only after the call
\* returned a result.
C15_StepsInOrder ==
  \A r \in Requests :
    /\ \A op \in {"begin", "setrole", "call", "commit"} : Cardinality(StepsOf(r, op)) <= 1
    /\ \A i \in StepsOf(r, "setrole") : Before(r, i, "begin", "ok")
    /\ \A i \in StepsOf(r, "call") : Before(r, i, "setrole", "ok")
    /\ \A i \in StepsOf(r, "commit") : Before(r, i, "call", "ok")
    /\ \A i \in StepsOf(r, "rollback") : Before(r, i, "begin", "ok")

\* All four steps have been taken and the request is answered.
C15_Witness ==
  \E r \in Requests :
    /\ req[r].pc = "done"
    /\ Len(req[r].trace) >= 4
    /\ LET n == Len(req[r].trace) IN
         /\ req[r].trace[n - 3].op = "begin"
         /\ req[r].trace[n - 2].op = "setrole"
         /\ req[r].trace[n - 1].op = "call"
         /\ req[r].trace[n].op = "commit" /\ req[r].trace[n].res = "ok"

\* C16: every response to a protected request echoes the id of the request's
\* body unchanged, and a request without an id gets a response without one.
C16_IdEchoedOnEveryPath ==
  \A r \in Requests :
    (Route(req[r].function) = "auth" /\ req[r].pc = "done" /\ req[r].body.kind = "rpc")
      => req[r].resp.id = req[r].body.id

\* The request is a protected one whose body is not the JSON of an envelope.
Unparsable(r) == Route(req[r].function) = "auth" /\ req[r].body.kind = "malformed"

\* C17: a protected request with an unparsable body is answered
\* with 400 and an error envelope without id, and is never dispatched.
C17_UnparsableAnswered400 ==
  \A r \in Requests :
    Unparsable(r) =>
      /\ DispatchEvents(r) = {}
      /\ req[r].pc = "done" =>
           /\ req[r].resp.status = 400
           /\ req[r].resp.shape = "envelope"
           /\ req[r].resp.id = NoId

\* C18: the status of the answer to a protected request follows from its
\* outcome: 200 for a committed call, 503 for a transaction that could not be
\* begun, 403 for a failed role switch, 404 for a procedure that does not
\* exist, 500 for any other failure of the call and for a failed commit; and
\* 404 is the answer only when the named procedure does not exist.
C18_StatusFollowsOutcome ==
  \A r \in Requests :
    (Route(req[r].function) = "auth" /\ req[r].pc = "done") =>
      LET s == req[r].resp.status IN
        /\ EventsWith(r, "commit", "ok") # {} <=> s = 200
        /\ EventsWith(r, "begin", "err") # {} => s = 503
        /\ EventsWith(r, "setrole", "err") # {} => s = 403
        /\ EventsWith(r, "call", "fn_missing") # {} => s = 404
        /\ EventsWith(r, "call", "inner_missing") # {} => s = 500
        /\ EventsWith(r, "call", "fail") # {} => s = 500
        /\ (EventsWith(r, "commit", "err") # {} \/ EventsWith(r, "commit", "refused") # {}) => s = 500
        /\ s = 404 => EventsWith(r, "call", "fn_missing") # {}

\* C19: pool acquisition honours the request's deadline: once the context of
\* a request is done, its call of GetConnection returns an error to it and
\* neither waits for a probe nor creates or registers a pool.
C19_PoolAcquisitionHonoursDeadline ==
  [][\A r \in Requests :
       (/\ req[r].ctxDone
        /\ req[r].pc \in {"auth_conn", "h_start"}
        /\ req'[r].pc # req[r].pc)
       => /\ req'[r].pc = "done"
          /\ req'[r].resp.status >= 400
          /\ pools' = pools
          /\ dbConnections' = dbConnections]_vars

\* The login of r failed at the wire-level authentication.
LoginFailedAuthentication(r) ==
  /\ Route(req[r].function) = "login"
  /\ req[r].pc = "done"
  /\ EventsWith(r, "ping", "err") # {}

\* C20: two logins to the same database that both fail the wire-level
\* authentication, whatever their logins and secrets, get the same status and
\* the same body.
C20_LoginFailuresIndistinguishable ==
  \A r, q \in ConcRequests :
    (/\ LoginFailedAuthentication(r)
     /\ LoginFailedAuthentication(q)
     /\ req[r].database = req[q].database)
    => req[r].resp = req[q].resp

\* An unknown login and a known login with a wrong secret have both been
\* answered, for the same database.
C20_Witness ==
  \E r, q \in ConcRequests :
    /\ LoginFailedAuthentication(r) /\ LoginFailedAuthentication(q)
    /\ req[r].database = req[q].database
    /\ req[r].body.login \notin Roles
    /\ req[q].body.login \in Roles
    /\ req[q].body.password # Text(PgPassword[req[q].body.login])
    /\ req[r].resp.status = 401

\* The middleware answered r with an authentication failure.
AuthenticationFailed(r) ==
  /\ Route(req[r].function) = "auth"
  /\ req[r].pc = "done"
  /\ req[r].aborted
  /\ req[r].resp.status = 401

\* C21: any two authentication failures of the protected route, whichever
\* check of the middleware failed, carry the same client message.
C21_OneMessageForAuthFailures ==
  \A r, q \in ConcRequests :
    (AuthenticationFailed(r) /\ AuthenticationFailed(q))
      => req[r].resp.message = req[q].resp.message

\* C22: every envelope of the protected route carries jsonrpc = "2.0"; an
\* error envelope carries no result.
C22_EnvelopeCarriesProtocolTag ==
  \A r \in Requests :
    (Route(req[r].function) = "auth" /\ req[r].pc = "done") =>
      /\ req[r].resp.shape = "envelope"
      /\ req[r].resp.jsonrpc = "2.0"
      /\ req[r].resp.status # 200 => ~req[r].resp.result

\* The pools created so far.
Created == {p \in PoolIds : pools[p] # NoDb}

\* The steps of the dispatcher in the history of r that failed.
FailedSteps(r) ==
  {i \in DispatchEvents(r) : req[r].trace[i].op # "rollback" /\ req[r].trace[i].res # "ok"}

\* C23: nothing is retried. One dispatch issues the begin, the role switch,
\* the procedure call and the commit at most once each; a step that failed is
\* the last step of its request (only the rollback of the transaction may
\* follow) and the handler goes on to return; one call of GetConnection
\* creates at most one pool.
C23_NoRetry ==
  /\ [](\A r \in Requests :
          /\ \A op \in {"begin", "setrole", "call", "commit"} :
               Cardinality(Events(r, op)) <= 1
          /\ \A i \in FailedSteps(r) :
               /\ \A j \in DispatchEvents(r) : j > i => req[r].trace[j].op = "rollback"
               /\ req[r].pc \in {"h_return", "done"}
          /\ Cardinality(FailedSteps(r)) <= 1)
  /\ [][Cardinality(Created') <= Cardinality(Created) + 1]_vars

\* A call failed after a pool was created for the request; the transaction
\* was rolled back and the request ended without a commit.
C23_Witness ==
  \E r \in Requests :
    /\ req[r].pc = "done"
    /\ Created # {}
    /\ EventsWith(r, "call", "fail") # {}
    /\ Events(r, "rollback") # {}
    /\ Events(r, "commit") = {}
    /\ req[r].resp.status = 500

\* The callers that are at a read of the registry map, and at a write or
\* between the exclusive lock and its release.
AtRead == {c \in Callers : gc[c].pc = "read"}
InExclusive == {c \in Callers : gc[c].pc \in {"recheck", "open", "newping"}}

\* C24: the registry map is read only under the shared or the exclusive lock
\* and written only under the exclusive lock; the lock is never held by a
\* writer and a reader, or by two writers, at the same time.
C24_RegistryLockDiscipline ==
  /\ [](/\ dbMutex.writer # 0 => dbMutex.readers = {}
        /\ \A c \in AtRead : c \in dbMutex.readers
        /\ \A c \in InExclusive : dbMutex.writer = c
        /\ Cardinality(InExclusive) <= 1
        /\ AtRead # {} => InExclusive = {})
  /\ [][dbConnections' # dbConnections =>
          \E c \in Callers : dbMutex.writer = c /\ gc[c].pc = "newping"]_vars

\* One caller holds the exclusive lock, about to write the map, while the
\* other waits for the shared lock.
C24_Witness ==
  \E c, e \in Callers :
    /\ c # e
    /\ gc[c].pc = "newping" /\ dbMutex.writer = c
    /\ gc[e].pc = "rlock"

\* C28: a name that has a registered pool keeps one through every step of
\* every call of GetConnection, failing calls included; an entry changes only
\* to a pool that was registered under no name and returned to no caller
\* before.
C28_NeverEvicted ==
  [][\A d \in Databases :
       /\ dbConnections[d] # NoPool => dbConnections'[d] # NoPool
       /\ dbConnections'[d] # dbConnections[d] =>
            /\ dbConnections'[d] # NoPool
            /\ \A e \in Databases : dbConnections[e] # dbConnections'[d]
            /\ \A q \in returned : q[2] # dbConnections'[d]]_vars

\* A call for a registered name found its pool unhealthy, opened a second
\* pool whose probe failed, and returned the error: the first pool is still
\* registered.
C28_Witness ==
  \E d \in Databases : \E p, q \in PoolIds :
    /\ p < q
    /\ dbConnections[d] = p
    /\ pools[q] = d
    /\ d \in faulted
    /\ \A c \in Callers : gc[c].pc = "idle"

\* The middleware accepts the header of r as a session credential of the
\* requested database (lines 188-221).
SessionAccepted(r) ==
  LET h == req[r].hdr IN
    /\ h.form = "two"
    /\ ToLower(h.scheme) = "bearer"
    /\ JwtValid(h.token) /\ ClaimsOk(h.token)
    /\ ScopeMatches(h.token.db, req[r].database)

\* C29: on the protected route a transaction is begun only after the
\* middleware resolved a role for the request, from its session credential or
\* from pgarachne.verify_api_token; a request the middleware rejected is
\* aborted: it never reaches the handler, begins no transaction, holds no
\* connection, and sets no role and calls no procedure.
C29_AuthenticationPrecedesDispatch ==
  \A r \in Requests :
    /\ \A i \in DispatchEvents(r) :
         /\ Route(req[r].function) = "auth"
         /\ SessionAccepted(r) \/ Before(r, i, "verify", "role")
         /\ ~req[r].aborted
    /\ InHandler(r) =>
         SessionAccepted(r) \/ EventsWith(r, "verify", "role") # {}
    /\ req[r].aborted =>
         /\ req[r].pc = "done"
         /\ req[r].resp.status \in {401, 503}
         /\ DispatchEvents(r) = {}
         /\ req[r].tx = TxNone
         /\ HeldBy(r) = {}

\* A request with an API token was given its role by the query and its
\* transaction was begun afterwards.
C29_Witness ==
  \E r \in Requests :
    /\ ~SessionAccepted(r)
    /\ \E i \in StepsOf(r, "begin") :
         /\ req[r].trace[i].res = "ok"
         /\ Before(r, i, "verify", "role")

\* C30: the handle handleLogin opens for the verification never outlives the
\* handler: it is open only while the handler is at the probe, and closed on
\* every return after it was opened (probe failed, signing failed, token
\* issued); the login route takes no pool from the registry, begins no
\* transaction, and none of its steps changes the registry, its lock or a
\* pooled connection.
C30_ThrowawayConnection ==
  /\ [](\A r \in Requests :
          /\ req[r].tempDB = "open" => req[r].pc = "login_ping"
          /\ req[r].tempDB # "none" => Route(req[r].function) = "login"
          /\ (Route(req[r].function) = "login" /\ req[r].pc # "idle") =>
               /\ req[r].db = NoPool
               /\ req[r].tx = TxNone
               /\ HeldBy(r) = {}
               /\ req[r].pc = "done" =>
                    req[r].tempDB = (IF Events(r, "ping") # {} THEN "closed" ELSE "none"))
  /\ [][\A r \in Requests :
          (req[r].pc \in {"login", "login_ping"} /\ req'[r] # req[r])
            => UNCHANGED <<dbConnections, dbMutex, pools, conns>>]_vars

\* The credentials were verified but the token could not be signed: the
\* handler returned 500 and the handle is closed.
C30_Witness ==
  \E r \in Requests :
    /\ Route(req[r].function) = "login"
    /\ req[r].pc = "done"
    /\ EventsWith(r, "ping", "ok") # {}
    /\ req[r].resp.status = 500
    /\ req[r].tempDB = "closed"

IssuePlusTTL == session.issued + session.hours * SecondsPerHour * TicksPerSecond

\* C27 (as stated): a token presented at any time strictly before issue time +
\* TTL is accepted as unexpired, and one presented after it is treated as
\* expired.
C27_ValidUntilIssuePlusTTL ==
  session.presentedAt # NoTime =>
    /\ session.presentedAt < IssuePlusTTL => session.accepted
    /\ session.presentedAt > IssuePlusTTL => ~session.accepted

\* C27 (amended): the exp claim of a minted token is issue time + TTL
\* (JWT_EXPIRY_HOURS hours) cut down to whole seconds; a token is accepted as
\* unexpired exactly when it is presented before the start of that second.
\* So it is accepted whenever more than a second is left before issue time +
\* TTL, and treated as expired at and after issue time + TTL.
C27_ValidUntilSecondOfExpiry ==
  /\ session.phase = "minted" =>
       /\ session.exp * TicksPerSecond <= IssuePlusTTL
       /\ IssuePlusTTL < (session.exp + 1) * TicksPerSecond
  /\ session.presentedAt # NoTime =>
       /\ session.accepted <=> session.presentedAt < session.exp * TicksPerSecond
       /\ session.presentedAt + TicksPerSecond <= IssuePlusTTL => session.accepted
       /\ session.presentedAt >= IssuePlusTTL => ~session.accepted

\* A token minted in the middle of a second is presented after the start of
\* the second of its expiry and before issue time + TTL, and is refused.
C27_Witness ==
  /\ session.presentedAt # NoTime
  /\ session.hours > 0
  /\ session.exp * TicksPerSecond <= session.presentedAt
  /\ session.presentedAt < IssuePlusTTL
  /\ ~session.accepted

\* What the database did for r, step by step: the operations and their results.
Outcomes(r) == [i \in 1..Len(req[r].trace) |-> <<req[r].trace[i].op, req[r].trace[i].res>>]

\* r asks for the capabilities listing and q calls an ordinary procedure, with
\* the same database, header and body.
Twins(r, q) ==
  /\ req[r].pc # "idle" /\ req[q].pc # "idle"
  /\ req[r].function = FnCapabilities
  /\ req[q].function \notin {FnCapabilities, FnLogin}
  /\ req[r].database = req[q].database
  /\ req[r].hdr = req[q].hdr
  /\ req[r].body = req[q].body

\* C26: a request for the capabilities listing reaches the handler only with
\* the role the middleware resolved, and its transaction runs the steps of any
\* dispatch: begin, SET LOCAL ROLE to that role, one call, made as that role,
\* whose text is the fixed SELECT pgarachne.capabilities($1::jsonb)::json, and
\* the commit after a result. Next to an ordinary call with the same inputs
\* for which the database answered the same way step by step, it has the same
\* response, the same fate of its transaction and the same role.
C26_CapabilitiesIsOrdinaryDispatch ==
  /\ \A r \in ConcRequests :
       req[r].function = FnCapabilities =>
         /\ InHandler(r) => req[r].dbRole # "" /\ SessionAccepted(r)
         /\ \A i \in StepsOf(r, "setrole") :
              Before(r, i, "begin", "ok") /\ req[r].trace[i].arg = <<req[r].dbRole>>
         /\ \A i \in StepsOf(r, "call") :
              /\ Before(r, i, "setrole", "ok")
              /\ req[r].trace[i].arg = <<"SELECT ", "pgarachne.capabilities", "($1::jsonb)::json">>
              /\ req[r].trace[i].as \in {req[r].dbRole, ""}
              /\ req[r].trace[i].res = "ok" => req[r].trace[i].as = req[r].dbRole
         /\ \A i \in StepsOf(r, "commit") : Before(r, i, "call", "ok")
  /\ \A r, q \in ConcRequests :
       (Twins(r, q) /\ req[r].pc = "done" /\ req[q].pc = "done" /\ Outcomes(r) = Outcomes(q)) =>
         /\ req[r].resp = req[q].resp
         /\ req[r].tx.state = req[q].tx.state
         /\ req[r].dbRole = req[q].dbRole
         /\ req[r].aborted = req[q].aborted

\* The listing and an ordinary call, same inputs, both told by the database
\* that the function does not exist: both rolled back and answered 404.
C26_Witness ==
  \E r, q \in ConcRequests :
    /\ Twins(r, q)
    /\ req[r].pc = "done" /\ req[q].pc = "done"
    /\ Outcomes(r) = Outcomes(q)
    /\ EventsWith(r, "call", "fn_missing") # {}
    /\ req[r].resp.status = 404
    /\ req[r].tx.state = "rolledback"

\* C31: a protected request carries a result envelope only once the commit of
\* its transaction has succeeded: its transaction is then committed, was not
\* rolled back, and every step before the commit succeeded.
C31_ResultOnlyAfterCommit ==
  \A r \in Requests :
    (Route(req[r].function) = "auth" /\ (req[r].resp.result \/ req[r].resp.status = 200)) =>
      /\ req[r].resp = ResultEnvelope(BoundId(r))
      /\ req[r].tx.state = "committed"
      /\ Commits(r) = 1
      /\ Rollbacks(r) = 0
      /\ FailedSteps(r) = {}
      /\ req[r].pc \in {"h_return", "done"}

\* A dispatch has been answered with its result.
C31_Witness ==
  \E r \in Requests :
    /\ req[r].pc = "done"
    /\ req[r].resp.result
    /\ req[r].resp.status = 200
    /\ Commits(r) = 1

\* The middleware stored an empty role for r: the verification procedure
\* answered with a role that is the empty string.
EmptyIdentity(r) ==
  /\ Route(req[r].function) = "auth"
  /\ EventsWith(r, "verify", "role") # {}
  /\ req[r].dbRole = ""

\* C32 (as stated): a request whose stored identity is empty is answered with
\* 500 and begins no transaction.
C32_EmptyRoleAnswered500 ==
  \A r \in Requests :
    (EmptyIdentity(r) /\ req[r].pc = "done") =>
      /\ req[r].resp.status = 500
      /\ Events(r, "begin") = {}

\* C32 (amended): no transaction is begun with an empty role: a request whose
\* role is empty has no dispatcher event, no transaction and no connection. A
\* request whose stored identity is empty is answered 503 when the handler
\* cannot get the pool, 400 when its body does not parse, and otherwise 500
\* with code -32000.
C32_EmptyRoleNeverBegins ==
  \A r \in Requests :
    /\ req[r].dbRole = "" =>
         /\ DispatchEvents(r) = {}
         /\ req[r].tx = TxNone
         /\ HeldBy(r) = {}
    /\ (EmptyIdentity(r) /\ req[r].pc = "done") =>
         /\ req[r].resp.status \in {503, 400, 500}
         /\ req[r].resp.status = 503 => req[r].resp.message = "Database connection failed"
         /\ req[r].resp.status = 400 => BindFails(req[r].body)
         /\ req[r].resp.status = 500 => (req[r].resp.code = -32000 /\ ~BindFails(req[r].body))

\* The verification procedure returned an empty role; the handler answered
\* 500 with code -32000.
C32_Witness ==
  \E r \in Requests :
    /\ EmptyIdentity(r)
    /\ req[r].pc = "done"
    /\ req[r].resp.status = 500
    /\ req[r].resp.code = -32000
    /\ Events(r, "begin") = {}

\* The step is the return of an error from the call of c: the call ends
\* inside the exclusive section and hands no pool to its caller.
ReturnsError(c) ==
  /\ gc[c].pc \in {"open", "newping"}
  /\ gc'[c].pc = "idle"
  /\ returned' = returned

\* C33: a call of GetConnection that returns an error, because sql.Open failed
\* or because the probe of the new pool failed, leaves the registry as it
\* was: no entry is added or changed, and the entry of the name is still the
\* one the call found on its re-check under the lock, a stale pool included.
C33_ErrorLeavesRegistry ==
  [][\A c \in Callers :
       ReturnsError(c) =>
         /\ dbConnections' = dbConnections
         /\ dbConnections'[gc[c].dbName] = gc[c].db
         /\ gc[c].dbName \in faulted']_vars

\* A first-use call opened a pool whose probe failed: the call has returned
\* and the name has no entry.
C33_Witness ==
  \E d \in Databases :
    /\ dbConnections[d] = NoPool
    /\ PoolsOf(d) # {}
    /\ d \in faulted
    /\ \A c \in Callers : gc[c].pc = "idle"

\* The step is a successful return of pool p from the call of c for name d.
Returns(c, d, p) ==
  /\ gc[c].pc \in {"ping", "recheck", "newping"}
  /\ gc[c].dbName = d
  /\ gc'[c].pc = "idle"
  /\ <<d, p>> \in returned'
  /\ p \in gc'[c].passed

\* The step is a successful return from the call of c.
ReturnsPool(c) == gc[c].pc # "idle" /\ gc'[c].pc = "idle" /\ gc'[c].passed # {}

\* The pool a call returns was registered under its name at an instant of the
\* call: it is what the call read from the map, under the shared lock or on
\* the re-check, or the pool the call registers as it returns.
RegisteredDuringCall(c, d, p) ==
  /\ p # NoPool
  /\ pools[p] = d
  /\ \/ gc[c].pc = "ping" /\ p = gc[c].db
     \/ gc[c].pc = "recheck" /\ p = dbConnections[d]
     \/ gc[c].pc = "newping" /\ p = gc[c].newDB /\ dbConnections'[d] = p

\* What a call reads from the map is the entry of its name at that instant.
ReadsEntry(c) ==
  (gc[c].pc = "read" /\ gc'[c].pc # "read") => gc'[c].db = dbConnections[gc[c].dbName]

\* C34 (as stated): the pool a successful call returns passed a probe in the
\* call and was registered under the name at an instant of the call; a pool
\* whose probe failed in the call is not returned by it.
C34_FailedProbeNeverReturned ==
  [][\A c \in Callers :
       /\ ReadsEntry(c)
       /\ ReturnsPool(c) =>
            \E p \in PoolIds :
              /\ Returns(c, gc[c].dbName, p)
              /\ RegisteredDuringCall(c, gc[c].dbName, p)
              /\ p \notin gc'[c].failed]_vars

\* C34 (amended): a successful call returns exactly one pool; the last probe
\* the call made was of that pool and passed, and the pool was registered
\* under the name at an instant of the call. A pool whose probe failed in the
\* call is returned only when the re-check under the exclusive lock found it
\* still registered and probed it again with success; a new pool whose probe
\* failed is neither registered nor returned.
C34_ReturnedPoolProbedAndRegistered ==
  [][\A c \in Callers :
       /\ ReadsEntry(c)
       /\ ReturnsPool(c) =>
            \E p \in PoolIds :
              /\ Returns(c, gc[c].dbName, p)
              /\ gc'[c].passed = {p}
              /\ returned' = returned \cup {<<gc[c].dbName, p>>}
              /\ RegisteredDuringCall(c, gc[c].dbName, p)
              /\ p \in gc'[c].failed =>
                   /\ gc[c].pc = "recheck"
                   /\ gc[c].db = p
                   /\ dbConnections[gc[c].dbName] = p
       /\ (gc[c].pc = "newping" /\ gc'[c].pc = "idle" /\ gc[c].newDB \in gc'[c].failed) =>
            /\ returned' = returned
            /\ \A d \in Databases : dbConnections'[d] # gc[c].newDB]_vars

\* A call found the registered pool unhealthy, found it still registered on
\* the re-check, probed it again with success and returned it.
C34_Witness ==
  \E c \in Callers : \E p \in PoolIds :
    /\ gc[c].pc = "idle"
    /\ p \in gc[c].passed
    /\ p \in gc[c].failed
    /\ \E d \in Databases : dbConnections[d] = p /\ <<d, p>> \in returned

\* The call of c saw pool p of its name fail the optimistic probe and, now at
\* the re-check under the exclusive lock, the name is registered to another
\* pool: a caller that entered the exclusive section earlier has replaced p.
FindsReplacement(c) ==
  /\ gc[c].pc = "recheck"
  /\ gc[c].db # NoPool
  /\ gc[c].db \in gc[c].failed
  /\ dbConnections[gc[c].dbName] \notin {NoPool, gc[c].db}

\* C35: of the concurrent calls that saw the same pool of a name fail its
\* probe, those that enter the exclusive section after the pool was replaced
\* find the replacement on the re-check: when its probe succeeds they return
\* it and create no pool, and they go on to open a pool only when the probe of
\* the replacement failed. So a pool is created only by a caller that, holding
\* the exclusive lock, found no pool registered under the name or saw the
\* registered one fail its probe: a healthy replacement is never replaced.
C35_OneReplacement ==
  /\ [][\A c \in Callers :
          FindsReplacement(c) =>
            LET d == gc[c].dbName
                q == dbConnections[d] IN
              \/ gc'[c] = gc[c]
              \/ /\ gc'[c].pc = "idle"
                 /\ gc'[c].passed = {q}
                 /\ <<d, q>> \in returned'
                 /\ pools' = pools
                 /\ dbConnections' = dbConnections
              \/ /\ gc'[c].pc = "open"
                 /\ q \in gc'[c].failed]_vars
  /\ [][\A c \in Callers :
          (gc[c].pc = "open" /\ gc'[c].pc = "newping") =>
            /\ dbMutex.writer = c
            /\ \/ dbConnections[gc[c].dbName] = NoPool
               \/ dbConnections[gc[c].dbName] \in gc[c].failed]_vars

\* Two calls saw the same pool fail; one replaced it, the other found the
\* replacement on its re-check and returned it: one replacement, registered.
C35_Witness ==
  \E c, e \in Callers : \E p, q \in PoolIds :
    /\ c # e /\ p # q
    /\ gc[c].pc = "idle" /\ gc[e].pc = "idle"
    /\ gc[c].failed = {p} /\ gc[e].failed = {p}
    /\ gc[c].passed = {q} /\ gc[e].passed = {q}
    /\ dbConnections[pools[p]] = q
    /\ PoolsOf(pools[p]) = {p, q}

\* The lock is free: no reader and no writer.
MutexFree == dbMutex = [readers |-> {}, writer |-> 0, pending |-> 0, blocked |-> {}]

\* C36: a caller holds the registry lock only inside its shared or exclusive
\* section, and has released it when its call has returned, on every exit
\* path; so the lock is free whenever no call is running, a running call
\* always has a caller that can take a step (no deadlock), and every call
\* returns.
C36_LockReleasedAndCallsReturn ==
  /\ [](\A c \in Callers :
          /\ gc[c].pc \in {"idle", "rlock", "rwait", "ping", "lock", "lwait"} =>
               (dbMutex.writer # c /\ c \notin dbMutex.readers)
          /\ gc[c].pc = "read" => dbMutex.writer = 0)
  /\ []((\A c \in Callers : gc[c].pc = "idle") => MutexFree)
  /\ []((\E c \in Callers : gc[c].pc # "idle") =>
          \E c \in Callers : ENABLED (CallProgress(c) \/ Acquire(c)))
  /\ \A c \in Callers : (gc[c].pc # "idle") ~> (gc[c].pc = "idle")

\* A call has returned an error out of the exclusive section while another
\* call waits for the exclusive lock, and the lock is free.
C36_Witness ==
  \E c, e \in Callers :
    /\ gc[c].pc = "idle"
    /\ gc[c].passed = {}
    /\ gc[c].failed # {}
    /\ gc[e].pc = "lock"
    /\ MutexFree

\* r and q are two requests to the same procedure of the same database with
\* the same header and the same id, whose envelopes differ at most in their
\* method and jsonrpc members.
Variants(r, q) ==
  /\ req[r].pc # "idle" /\ req[q].pc # "idle"
  /\ req[r].database = req[q].database
  /\ req[r].function = req[q].function
  /\ req[r].hdr = req[q].hdr
  /\ req[r].body.kind = "rpc" /\ req[q].body.kind = "rpc"
  /\ req[r].body.id = req[q].body.id

\* The surroundings treated r and q alike: both got a pool or neither, the
\* database answered the same way step by step, and the clients waited alike.
TreatedAlike(r, q) ==
  /\ (req[r].db = NoPool) = (req[q].db = NoPool)
  /\ Outcomes(r) = Outcomes(q)
  /\ req[r].ctxDone = req[q].ctxDone
  /\ req[r].txAtCancel = req[q].txAtCancel

\* q went all the way: it got a pool, its client waited and no step failed.
Unhindered(q) ==
  /\ req[q].pc = "done"
  /\ req[q].db # NoPool
  /\ ~req[q].ctxDone
  /\ FailedSteps(q) = {}

Protected(r) == req[r].pc # "idle" /\ Route(req[r].function) = "auth"

\* C38: a protected request has at most one response written at any time and
\* exactly one when its handler chain has returned; the envelope it holds is
\* the one that was written. A request the middleware rejected got its
\* response from the middleware, is finished, and the dispatcher did nothing
\* for it: no pool, no transaction, no database step.
C38_ExactlyOneResponse ==
  \A r \in Requests :
    Protected(r) =>
      /\ req[r].writes <= 1
      /\ (req[r].writes = 0) = (req[r].resp = NoResp)
      /\ req[r].pc = "done" => req[r].writes = 1
      /\ req[r].aborted =>
           /\ req[r].pc = "done"
           /\ req[r].writes = 1
           /\ req[r].resp.status \in {401, 503}
           /\ DispatchEvents(r) = {}
           /\ req[r].tx = TxNone

\* The middleware has rejected a request and written its one response.
C38_Witness ==
  \E r \in Requests :
    /\ Protected(r)
    /\ req[r].pc = "done"
    /\ req[r].aborted
    /\ req[r].writes = 1
    /\ req[r].resp.status = 401

\* The four required settings are present in the environment: DB_HOST,
\* DB_USER and JWT_SECRET are not empty and DB_PORT is the text of an integer
\* other than zero.
Complete(env) ==
  /\ env.DB_HOST # ""
  /\ env.DB_USER # ""
  /\ env.JWT_SECRET # ""
  /\ env.DB_PORT \in {<<"5", "4", "3", "2">>, <<"-", "1">>}

\* C39: once Load has returned, main goes on (and the server may serve) only
\* with a Config whose host, user and secret are the non-empty values of the
\* environment and whose port is not zero; with any of the four missing Load
\* returned an error and no Config, the process has exited, and it served no
\* request. A process that exited never served a request.
C39_NeverServesUnconfigured ==
  /\ boot.pc \in {"configured", "serving"} =>
       /\ Complete(boot.env)
       /\ boot.err = "nil"
       /\ boot.cfg.DBHost = boot.env.DB_HOST /\ boot.cfg.DBHost # ""
       /\ boot.cfg.DBUser = boot.env.DB_USER /\ boot.cfg.DBUser # ""
       /\ boot.cfg.JWTSecret = boot.env.JWT_SECRET /\ boot.cfg.JWTSecret # ""
       /\ boot.cfg.DBPort # 0
  /\ (boot.pc # "start" /\ ~Complete(boot.env)) =>
       /\ boot.pc = "exited"
       /\ boot.err # "nil"
       /\ boot.cfg = NoConfig
  /\ boot.pc = "exited" => boot.served = 0
  /\ boot.served > 0 => boot.pc = "serving"

\* Host, user and port are set and the secret is not: Load returned the error
\* about the secret and the process has exited without serving.
C39_Witness ==
  /\ boot.pc = "exited"
  /\ boot.env.DB_HOST # "" /\ boot.env.DB_USER # ""
  /\ boot.env.DB_PORT = <<"5", "4", "3", "2">>
  /\ boot.env.JWT_SECRET = ""
  /\ boot.err = "jwt_secret not set in config (environment variable JWT_SECRET)"
  /\ boot.cfg = NoConfig
  /\ boot.served = 0

\* The SHA-256 digests of the tokens in lowercase hexadecimal, from an
\* independent implementation; the one of the test's token is the hash the
\* test expects.
ReferenceDigest(token) ==
  CASE token = EmptyToken ->
       <<"e", "3", "b", "0", "c", "4", "4", "2", "9", "8", "f", "c", "1", "c", "1", "4", "9", "a",
       "f", "b", "f", "4", "c", "8", "9", "9", "6", "f", "b", "9", "2", "4", "2", "7", "a", "e",
       "4", "1", "e", "4", "6", "4", "9", "b", "9", "3", "4", "c", "a", "4", "9", "5", "9", "9",
       "1", "b", "7", "8", "5", "2", "b", "8", "5", "5">>
    [] token = AbcToken ->
       <<"b", "a", "7", "8", "1", "6", "b", "f", "8", "f", "0", "1", "c", "f", "e", "a", "4", "1",
       "4", "1", "4", "0", "d", "e", "5", "d", "a", "e", "2", "2", "2", "3", "b", "0", "0", "3",
       "6", "1", "a", "3", "9", "6", "1", "7", "7", "a", "9", "c", "b", "4", "1", "0", "f", "f",
       "6", "1", "f", "2", "0", "0", "1", "5", "a", "d">>
    [] token = TestToken -> ExpectedHash
    [] token = TestTokenSpace ->
       <<"1", "2", "8", "6", "9", "e", "0", "e", "0", "3", "2", "b", "6", "8", "9", "5", "0", "6",
       "a", "9", "8", "5", "4", "7", "d", "9", "b", "9", "e", "9", "2", "a", "4", "8", "8", "9",
       "f", "b", "e", "e", "5", "f", "b", "8", "b", "7", "7", "6", "f", "1", "a", "9", "4", "4",
       "5", "3", "a", "d", "6", "5", "7", "1", "4", "3">>
    [] token = LongToken ->
       <<"b", "3", "5", "4", "3", "9", "a", "4", "a", "c", "6", "f", "0", "9", "4", "8", "b", "6",
       "d", "6", "f", "9", "e", "3", "c", "6", "a", "f", "0", "f", "5", "f", "5", "9", "0", "c",
       "e", "2", "0", "f", "1", "b", "d", "e", "7", "0", "9", "0", "e", "f", "7", "9", "7", "0",
       "6", "8", "6", "e", "c", "6", "7", "3", "8", "a">>

LowerHexDigits == {"0", "1", "2", "3", "4", "5", "6", "7", "8", "9", "a", "b", "c", "d", "e", "f"}

\* C40: every call of HashToken returns 64 lowercase hexadecimal digits, the
\* SHA-256 digest of exactly the bytes it was given (for "secret_token_value"
\* the hash the test expects), and two calls with the same token return the
\* same hash.
C40_HashTokenIsSha256Hex ==
  /\ \A i \in 1..Len(hashed) :
       /\ Len(hashed[i].hash) = 64
       /\ \A k \in 1..Len(hashed[i].hash) : hashed[i].hash[k] \in LowerHexDigits
       /\ hashed[i].hash = ReferenceDigest(hashed[i].token)
       /\ hashed[i].token = TestToken => hashed[i].hash = ExpectedHash
  /\ \A i, j \in 1..Len(hashed) :
       hashed[i].token = hashed[j].token => hashed[i].hash = hashed[j].hash

\* The test's token was hashed twice, with another token in between, and
\* both calls returned the expected hash.
C40_Witness ==
  /\ Len(hashed) = 3
  /\ hashed[1].token = TestToken /\ hashed[1].hash = ExpectedHash
  /\ hashed[2].token = TestTokenSpace /\ hashed[2].hash # ExpectedHash
  /\ hashed[3].token = TestToken /\ hashed[3].hash = ExpectedHash
====
